---- MODULE Spec2Model ----
(***************************************************************************)
(* The event-stream translation and session-state engine of                *)
(* OpenCodeAcpAgent (src/src/index.ts, the class starting at line 766):    *)
(* the session table, the single event loop of setupEventHandlers with its *)
(* delta calculation, echo filter and tool permission handling, the        *)
(* notification mapper toAcpNotifications, and the requests that create or *)
(* change sessions.                                                        *)
(*                                                                         *)
(* Text is a sequence of characters.  A downstream call (sessionUpdate or  *)
(* requestPermission) is a record; `out` holds, in order, the calls the    *)
(* loop has issued for the event it took up last.                          *)
(***************************************************************************)
EXTENDS Naturals, Sequences, FiniteSets, TLC

\* ------------------------------------------------------------------ bounds
MaxTextLen == 2
MaxEvents == 2

SessionIds == {"s1", "s2"}
\* a part keeps its type for its lifetime: p1 is a text part, p2 a reasoning part
TextPartIds == {"p1"}
ReasoningPartIds == {"p2"}
PartIds == TextPartIds \cup ReasoningPartIds
CallIds == {"c1", "c2"}
Alphabet == {"a", "b"}
Texts == UNION {[1..n -> Alphabet] : n \in 0..MaxTextLen}

NoSessionId == ""

Modes == {"default", "acceptEdits", "bypassPermissions", "plan"}

\* tool names, as the characters startsWith inspects
write_file == <<"w", "r", "i", "t", "e", "_", "f", "i", "l", "e">>
execute_bash == <<"e", "x", "e", "c", "u", "t", "e", "_", "b", "a", "s", "h">>
ToolNames == {write_file, execute_bash}
\* a tool call keeps its tool name for its lifetime
ToolOf(callID) == IF callID = "c1" THEN write_file ELSE execute_bash

VARIABLES
    sessions,   \* this.sessions: session id -> Session, defined on the registered ids
    pc,         \* where the event loop is: "idle", "awaitPermission", "dead"
    cur,        \* the event the loop took up last, with what held when it was taken
    out,        \* the downstream calls issued for cur, in order
    nEvents,    \* number of upstream events taken so far
    recv,       \* history: per (session, part) the texts that reached the delta calculation
    chunks,     \* history: per (session, part) the concatenation of the chunk texts sent
    denied,     \* history: the (session, callID) pairs reported Failed because denied
    requests,   \* history: per (session, callID) the number of permission requests issued
    aborted,    \* the sessions for which an upstream session.abort has been issued
    reply,      \* what the request served last returned or threw
    heap,       \* the BackgroundTerminal object created under each terminal id
    backgroundTerminals,    \* this.backgroundTerminals: the ids the table holds
    waits       \* per terminal id the waitForTerminalExit call made for it

vars == <<sessions, pc, cur, out, nEvents, recv, chunks, denied, requests,
          aborted, reply, heap, backgroundTerminals, waits>>

\* the variables of the event loop, apart from the session table
loopVars == <<pc, cur, out, nEvents, recv, chunks, denied, requests>>

\* the variables of the background terminals
termVars == <<heap, backgroundTerminals, waits>>

\* ------------------------------------------------------------ text helpers
StartsWith(s, p) == Len(s) >= Len(p) /\ SubSeq(s, 1, Len(p)) = p

IsPrefix(s, t) == StartsWith(t, s)

\* String.prototype.substring(start): the characters from index start on
Substring(s, start) == SubSeq(s, start + 1, Len(s))

\* ------------------------------------------------------- Map<string,string>
EmptyMap == [p \in {} |-> <<>>]

\* lastSentTextByMessagePartId.get(id) || ""
MapGet(m, k) == IF k \in DOMAIN m THEN m[k] ELSE <<>>

MapSet(m, k, v) == [x \in (DOMAIN m) \cup {k} |-> IF x = k THEN v ELSE m[x]]

\* ------------------------------------------------------------- tool kinds
mapToolKindListAsRead(toolName) ==
    IF \/ StartsWith(toolName, <<"r", "e", "a", "d">>)
       \/ StartsWith(toolName, <<"l", "i", "s", "t">>) THEN "read"
    ELSE IF \/ StartsWith(toolName, <<"w", "r", "i", "t", "e">>)
            \/ StartsWith(toolName, <<"e", "d", "i", "t">>)
            \/ StartsWith(toolName, <<"a", "p", "p", "l", "y">>)
            \/ StartsWith(toolName, <<"i", "n", "s", "e", "r", "t">>) THEN "edit"
    ELSE IF StartsWith(toolName, <<"e", "x", "e", "c", "u", "t", "e">>) THEN "execute"
    ELSE IF StartsWith(toolName, <<"s", "e", "a", "r", "c", "h">>) THEN "search"
    ELSE IF StartsWith(toolName, <<"b", "r", "o", "w", "s", "e", "r">>) THEN "fetch"
    ELSE IF \/ StartsWith(toolName, <<"u", "p", "d", "a", "t", "e">>)
            \/ StartsWith(toolName, <<"a", "s", "k">>) THEN "think"
    ELSE IF StartsWith(toolName, <<"s", "w", "i", "t", "c", "h">>) THEN "switch_mode"
    ELSE "other"

mapToolKind(toolName) ==
    IF StartsWith(toolName, <<"r", "e", "a", "d">>) THEN "read"
    ELSE IF \/ StartsWith(toolName, <<"w", "r", "i", "t", "e">>)
            \/ StartsWith(toolName, <<"e", "d", "i", "t">>)
            \/ StartsWith(toolName, <<"a", "p", "p", "l", "y">>)
            \/ StartsWith(toolName, <<"i", "n", "s", "e", "r", "t">>) THEN "edit"
    ELSE IF StartsWith(toolName, <<"e", "x", "e", "c", "u", "t", "e">>) THEN "execute"
    ELSE IF \/ StartsWith(toolName, <<"s", "e", "a", "r", "c", "h">>)
            \/ StartsWith(toolName, <<"l", "i", "s", "t">>) THEN "search"
    ELSE IF StartsWith(toolName, <<"b", "r", "o", "w", "s", "e", "r">>) THEN "fetch"
    ELSE IF \/ StartsWith(toolName, <<"u", "p", "d", "a", "t", "e">>)
            \/ StartsWith(toolName, <<"a", "s", "k">>)
            \/ StartsWith(toolName, <<"n", "e", "w", "_", "t", "a", "s", "k">>) THEN "think"
    ELSE IF StartsWith(toolName, <<"s", "w", "i", "t", "c", "h">>) THEN "switch_mode"
    ELSE "other"

\* --------------------------------------------------------- upstream events
\* One record shape for every event; a field an event does not carry holds
\* the value it has here.  time: whether the part has its `time` property.
BaseEvent ==
    [type |-> "message.part.updated", sessionID |-> NoSessionId, partType |-> "-",
     id |-> "-", text |-> <<>>, time |-> FALSE, callID |-> "-", tool |-> <<>>,
     status |-> "-", diffOutput |-> FALSE, mime |-> <<>>]

TextEvents ==
    {[BaseEvent EXCEPT !.sessionID = s, !.partType = "text", !.id = p,
                       !.text = t, !.time = tm] :
        s \in SessionIds, p \in TextPartIds, t \in Texts, tm \in BOOLEAN}

ReasoningEvents ==
    {[BaseEvent EXCEPT !.sessionID = s, !.partType = "reasoning", !.id = p,
                       !.text = t, !.time = TRUE] :
        s \in SessionIds, p \in ReasoningPartIds, t \in Texts}

ToolStates ==
    {[status |-> "pending", diffOutput |-> FALSE],
     [status |-> "running", diffOutput |-> FALSE],
     [status |-> "completed", diffOutput |-> FALSE],
     [status |-> "completed", diffOutput |-> TRUE],
     [status |-> "error", diffOutput |-> FALSE]}

ToolEvents ==
    {[BaseEvent EXCEPT !.sessionID = s, !.partType = "tool", !.callID = c,
                       !.tool = ToolOf(c), !.status = st.status,
                       !.diffOutput = st.diffOutput] :
        s \in SessionIds, c \in CallIds, st \in ToolStates}

OtherPartEvents ==
    {[BaseEvent EXCEPT !.sessionID = s, !.partType = pt.partType, !.mime = pt.mime] :
        s \in SessionIds,
        pt \in {[partType |-> "file", mime |-> <<"image/", "png">>],
                [partType |-> "file", mime |-> <<"text/", "plain">>],
                [partType |-> "patch", mime |-> <<>>],
                [partType |-> "step-start", mime |-> <<>>]}}

\* a part update whose part names no session
MalformedEvents ==
    {[BaseEvent EXCEPT !.partType = "reasoning", !.id = "p2", !.time = TRUE],
     [BaseEvent EXCEPT !.partType = "text", !.id = "p1"]}

MessageUpdatedEvents ==
    {[BaseEvent EXCEPT !.type = "message.updated", !.sessionID = s] : s \in SessionIds}

\* a message.part.updated event whose properties carry no part
MissingPartEvents == {[BaseEvent EXCEPT !.partType = "undefined"]}

PartUpdatedEvents ==
    TextEvents \cup ReasoningEvents \cup ToolEvents \cup OtherPartEvents
        \cup MalformedEvents \cup MissingPartEvents

\* pending tool parts of session s1 under tool names of every rule of
\* mapToolKind and of none: a prefix followed by a suffix
ToolNamePrefixes ==
    {<<"r", "e", "a", "d">>,
     <<"w", "r", "i", "t", "e">>,
     <<"e", "d", "i", "t">>,
     <<"a", "p", "p", "l", "y">>,
     <<"i", "n", "s", "e", "r", "t">>,
     <<"e", "x", "e", "c", "u", "t", "e">>,
     <<"s", "e", "a", "r", "c", "h">>,
     <<"l", "i", "s", "t">>,
     <<"b", "r", "o", "w", "s", "e", "r">>,
     <<"u", "p", "d", "a", "t", "e">>,
     <<"a", "s", "k">>,
     <<"n", "e", "w", "_", "t", "a", "s", "k">>,
     <<"s", "w", "i", "t", "c", "h">>,
     <<"u", "n", "k", "n", "o", "w", "n">>,
     <<"n", "e", "w">>,
     <<"r", "e", "a">>,
     <<"t", "a", "s", "k">>}

ToolNameSuffixes ==
    {<<>>,
     <<"_", "f", "i", "l", "e">>,
     <<"_", "b", "a", "s", "h">>,
     <<"_", "c", "o", "d", "e">>,
     <<"_", "t", "o", "o", "l">>,
     <<"e", "r">>}

NamedToolNames == {p \o x : p \in ToolNamePrefixes, x \in ToolNameSuffixes}

NamedToolEvents ==
    {[BaseEvent EXCEPT !.sessionID = "s1", !.partType = "tool", !.callID = "c1",
                       !.tool = n, !.status = "pending"] : n \in NamedToolNames}

\* -------------------------------------------------------- downstream calls
BaseCall ==
    [call |-> "sessionUpdate", sessionId |-> NoSessionId, sessionUpdate |-> "-",
     toolCallId |-> "-", status |-> "-", kind |-> "-", content |-> "-",
     text |-> <<>>]

Chunk(sessionId, sessionUpdate, text) ==
    [BaseCall EXCEPT !.sessionId = sessionId, !.sessionUpdate = sessionUpdate,
                     !.content = "text", !.text = text]

ToolCall(sessionId, callID, status, kind) ==
    [BaseCall EXCEPT !.sessionId = sessionId, !.sessionUpdate = "tool_call",
                     !.toolCallId = callID, !.status = status, !.kind = kind]

ToolCallUpdate(sessionId, callID, status, content, text) ==
    [BaseCall EXCEPT !.sessionId = sessionId, !.sessionUpdate = "tool_call_update",
                     !.toolCallId = callID, !.status = status,
                     !.content = content, !.text = text]

RequestPermission(sessionId, callID) ==
    [BaseCall EXCEPT !.call = "requestPermission", !.sessionId = sessionId,
                     !.toolCallId = callID]

\* texts the code builds; one element stands for the fixed wording
BlockedInPlanMode == <<"Tool execution blocked in Plan Mode.">>
PermissionDeniedText(tool) == <<"Permission for tool '">> \o tool \o <<"' denied.">>
ToolInputText == <<"Tool input: ">>
SerializedText == <<"JSON">>
FileText(mime) == <<"File: ">> \o mime
PatchText == <<"Patch applied with hash: ">>
ErrorText == <<"Error from OpenCode: ">>

\* ------------------------------------------------------ toAcpNotifications
ToolUpdateStatusWrong(status) ==
    IF status = "running" THEN "in_progress" ELSE "completed"

\* status of the tool_call_update for a tool part that is no longer pending
ToolUpdateStatus(status) ==
    CASE status = "running" -> "in_progress"
      [] status = "completed" -> "completed"
      [] status = "error" -> "failed"

ToolNotification(part, sessionId) ==
    IF part.status = "pending"
    THEN <<ToolCall(sessionId, part.callID, "pending", mapToolKind(part.tool))>>
    ELSE IF part.status = "running"
    THEN <<ToolCallUpdate(sessionId, part.callID, ToolUpdateStatus(part.status),
                          "content", ToolInputText)>>
    ELSE IF part.status = "completed"
    THEN IF mapToolKind(part.tool) = "edit" /\ part.diffOutput
         THEN <<ToolCallUpdate(sessionId, part.callID, ToolUpdateStatus(part.status),
                               "diff", <<>>)>>
         ELSE <<ToolCallUpdate(sessionId, part.callID, ToolUpdateStatus(part.status),
                               "content", SerializedText)>>
    ELSE IF part.status = "error"
    THEN <<ToolCallUpdate(sessionId, part.callID, ToolUpdateStatus(part.status),
                          "content", SerializedText)>>
    ELSE <<>>

\* hasError: messageInfo && messageInfo.error
toAcpNotifications(hasError, part, sessionId) ==
    LET update ==
            CASE part.partType = "text" ->
                    <<Chunk(sessionId, "agent_message_chunk", part.text)>>
              [] part.partType = "tool" -> ToolNotification(part, sessionId)
              [] part.partType = "file" ->
                    IF StartsWith(part.mime, <<"image/">>)
                    THEN <<[BaseCall EXCEPT !.sessionId = sessionId,
                                            !.sessionUpdate = "agent_message_chunk",
                                            !.content = "image"]>>
                    ELSE <<Chunk(sessionId, "agent_message_chunk", FileText(part.mime))>>
              [] part.partType = "reasoning" ->
                    <<[BaseCall EXCEPT !.sessionId = sessionId,
                                       !.sessionUpdate = "plan",
                                       !.status = "pending", !.kind = "medium",
                                       !.content = "entries", !.text = part.text]>>
              [] part.partType = "patch" ->
                    <<[BaseCall EXCEPT !.sessionId = sessionId,
                                       !.sessionUpdate = "tool_call",
                                       !.toolCallId = "patch-hash",
                                       !.status = "completed", !.kind = "edit",
                                       !.content = "content", !.text = PatchText]>>
              [] OTHER -> <<>>
    IN  update \o (IF hasError
                   THEN <<Chunk(sessionId, "agent_message_chunk", ErrorText)>>
                   ELSE <<>>)

\* ---------------------------------------------------------------- sessions
\* the Session object newSession and loadSession store
NewSessionRecord ==
    [cancelled |-> FALSE, permissionMode |-> "default",
     lastSentTextByMessagePartId |-> EmptyMap, messageUpdateResolver |-> FALSE]

Registered == DOMAIN sessions

PutSession(table, sessionId, session) ==
    [x \in (DOMAIN table) \cup {sessionId} |->
        IF x = sessionId THEN session ELSE table[x]]

NoEvent == [BaseEvent EXCEPT !.type = "none"]

\* ---- what a request returns or throws
\* with the request: its operation, the session or terminal id and the
\* argument it was made with, whether that id was registered, for a prompt
\* what the prompt met (input), the downstream calls the request made
\* (sent), for a loadSession the history the upstream runtime gave it, and
\* for a prompt whether it called session.prompt upstream
NoInput ==
    [slash |-> FALSE, command |-> "-", upstream |-> "-", downstream |-> "-",
     errorName |-> "-"]

\* the output field of a reply that carries no output
NoOutput == <<"-">>

Return(op, id, arg, result) ==
    [op |-> op, id |-> id, arg |-> arg, known |-> id \in Registered,
     input |-> NoInput, threw |-> FALSE, result |-> result, exitStatus |-> {},
     sent |-> <<>>, history |-> <<>>, output |-> NoOutput,
     upstreamPrompt |-> FALSE]

Throw(op, id, arg, message) ==
    [op |-> op, id |-> id, arg |-> arg, known |-> id \in Registered,
     input |-> NoInput, threw |-> TRUE, result |-> message, exitStatus |-> {},
     sent |-> <<>>, history |-> <<>>, output |-> NoOutput,
     upstreamPrompt |-> FALSE]

NoReply == Return("-", "-", "-", "-")

\* ---- background terminals
TerminalIds == {"t1", "t2"}

TerminalStatuses == {"started", "aborted", "exited", "killed", "timedOut"}

Null == "null"

\* exitStatus is {} for null and {[exitCode, signal]} otherwise; output is
\* the text of the record's output string
NoTerminal == [status |-> "-", exitStatus |-> {}, output |-> <<>>]

NewTerminal == [status |-> "started", exitStatus |-> {}, output |-> <<>>]

NoWait == [at |-> "none", exitCode |-> "-", signal |-> "-"]

\* cur: the event, and what held when the loop took it up: whether its session
\* was registered, that session's mode and the text stored for the part,
\* whether its callID had been denied before; and the permission response
\* received for it ("-": none)
CurOf(e) ==
    [e |-> e,
     known |-> e.sessionID \in Registered,
     mode |-> IF e.sessionID \in Registered
              THEN sessions[e.sessionID].permissionMode ELSE "-",
     previousText |-> IF e.sessionID \in Registered
                      THEN MapGet(sessions[e.sessionID].lastSentTextByMessagePartId, e.id)
                      ELSE <<>>,
     deniedBefore |-> <<e.sessionID, e.callID>> \in denied,
     cancelled |-> IF e.sessionID \in Registered
                   THEN sessions[e.sessionID].cancelled ELSE FALSE,
     response |-> "-"]

Init ==
    /\ sessions = [x \in {} |-> NewSessionRecord]
    /\ pc = "idle"
    /\ cur = [e |-> NoEvent, known |-> FALSE, mode |-> "-", previousText |-> <<>>,
              deniedBefore |-> FALSE, cancelled |-> FALSE, response |-> "-"]
    /\ out = <<>>
    /\ nEvents = 0
    /\ recv = [sp \in SessionIds \X PartIds |-> <<>>]
    /\ chunks = [sp \in SessionIds \X PartIds |-> <<>>]
    /\ denied = {}
    /\ requests = [sc \in SessionIds \X CallIds |-> 0]
    /\ aborted = {}
    /\ reply = NoReply
    /\ heap = [t \in TerminalIds |-> NoTerminal]
    /\ backgroundTerminals = {}
    /\ waits = [t \in TerminalIds |-> NoWait]

\* the shape of the state
TypeOK ==
    /\ DOMAIN sessions \subseteq SessionIds
    /\ \A s \in DOMAIN sessions :
          /\ sessions[s].cancelled \in BOOLEAN
          /\ sessions[s].permissionMode \in Modes
          /\ DOMAIN sessions[s].lastSentTextByMessagePartId \subseteq PartIds
          /\ \A p \in DOMAIN sessions[s].lastSentTextByMessagePartId :
                sessions[s].lastSentTextByMessagePartId[p] \in Texts
          /\ sessions[s].messageUpdateResolver = FALSE
    /\ pc \in {"idle", "awaitPermission", "dead"}
    /\ nEvents \in 0..MaxEvents
    /\ denied \subseteq SessionIds \X CallIds
    /\ requests \in [SessionIds \X CallIds -> 0..MaxEvents]
    /\ aborted \subseteq SessionIds
    /\ backgroundTerminals \subseteq {t \in TerminalIds : heap[t] # NoTerminal}
    /\ \A t \in TerminalIds :
          /\ heap[t].status \in TerminalStatuses \cup {"-"}
          /\ waits[t].at \in {"none", "polling", "returned", "threw"}

\* ------------------------------------------------------------ the event loop
IsEchoByContent(part) == part.partType = "text" /\ ~part.time /\ part.text = <<>>

\* the echo filter: a text part with no `time`
IsEcho(part) == part.partType = "text" /\ ~part.time

\* !sessionID || !part
IsMalformed(part) == part.sessionID = NoSessionId

\* substring(previousText.length)
DeltaText(currentText, previousText) == Substring(currentText, Len(previousText))

ForwardDeltaAlways(deltaText) == TRUE

\* if (deltaText.length > 0)
ForwardDelta(deltaText) == Len(deltaText) > 0

ChunkType(part) ==
    IF part.partType = "text" THEN "agent_message_chunk" ELSE "agent_thought_chunk"

\* The calls sessionUpdate(planned[1]), ... are awaited one after the other;
\* failAt = 0: all resolve; otherwise the failAt-th rejects, which ends the
\* loop's async function.  A requestPermission is answered later.
Fails(planned, failAt) ==
    failAt \in 1..Len(planned) /\ planned[failAt].call = "sessionUpdate"

Issued(planned, failAt) ==
    IF Fails(planned, failAt) THEN SubSeq(planned, 1, failAt) ELSE planned

HandleDeltaSharedMap(e, failAt) ==
    LET session == sessions[e.sessionID]
        previousText == MapGet(session.lastSentTextByMessagePartId, e.id)
        deltaText == DeltaText(e.text, previousText)
        planned == IF ForwardDelta(deltaText)
                   THEN <<Chunk(e.sessionID, ChunkType(e), deltaText)>>
                   ELSE <<>>
        sp == <<e.sessionID, e.id>>
    IN  /\ failAt \in 0..Len(planned)
        /\ sessions' = [x \in DOMAIN sessions |->
               [sessions[x] EXCEPT !.lastSentTextByMessagePartId =
                   MapSet(sessions[x].lastSentTextByMessagePartId, e.id, e.text)]]
        /\ out' = Issued(planned, failAt)
        /\ pc' = IF Fails(planned, failAt) THEN "dead" ELSE "idle"
        /\ recv' = [recv EXCEPT ![sp] = Append(@, e.text)]
        /\ chunks' = [chunks EXCEPT
               ![sp] = IF planned = <<>> THEN @ ELSE @ \o planned[1].text]
        /\ UNCHANGED <<denied, requests>>

HandleDeltaStoreOnSend(e, failAt) ==
    LET session == sessions[e.sessionID]
        previousText == MapGet(session.lastSentTextByMessagePartId, e.id)
        deltaText == DeltaText(e.text, previousText)
        planned == IF ForwardDelta(deltaText)
                   THEN <<Chunk(e.sessionID, ChunkType(e), deltaText)>>
                   ELSE <<>>
        sp == <<e.sessionID, e.id>>
    IN  /\ failAt \in 0..Len(planned)
        /\ sessions' = IF ForwardDelta(deltaText)
                       THEN [sessions EXCEPT
                               ![e.sessionID].lastSentTextByMessagePartId =
                                   MapSet(session.lastSentTextByMessagePartId, e.id, e.text)]
                       ELSE sessions
        /\ out' = Issued(planned, failAt)
        /\ pc' = IF Fails(planned, failAt) THEN "dead" ELSE "idle"
        /\ recv' = [recv EXCEPT ![sp] = Append(@, e.text)]
        /\ chunks' = [chunks EXCEPT
               ![sp] = IF planned = <<>> THEN @ ELSE @ \o planned[1].text]
        /\ UNCHANGED <<denied, requests>>

\* text and reasoning parts of a registered session: the delta calculation
HandleDelta(e, failAt) ==
    LET session == sessions[e.sessionID]
        previousText == MapGet(session.lastSentTextByMessagePartId, e.id)
        deltaText == DeltaText(e.text, previousText)
        planned == IF ForwardDelta(deltaText)
                   THEN <<Chunk(e.sessionID, ChunkType(e), deltaText)>>
                   ELSE <<>>
        sp == <<e.sessionID, e.id>>
    IN  /\ failAt \in 0..Len(planned)
        /\ sessions' = [sessions EXCEPT
               ![e.sessionID].lastSentTextByMessagePartId =
                   MapSet(session.lastSentTextByMessagePartId, e.id, e.text)]
        /\ out' = Issued(planned, failAt)
        /\ pc' = IF Fails(planned, failAt) THEN "dead" ELSE "idle"
        /\ recv' = [recv EXCEPT ![sp] = Append(@, e.text)]
        /\ chunks' = [chunks EXCEPT
               ![sp] = IF planned = <<>> THEN @ ELSE @ \o planned[1].text]
        /\ UNCHANGED <<denied, requests>>

\* ---- the permission handling of a tool part with status pending
\* Each branch gives the calls it issues, whether the loop then waits for the
\* permission response (ask), whether it goes on to toAcpNotifications
\* (fallThrough) and whether it reported the call Failed as denied (deny).

\* bypassPermissions, acceptEdits: permissionGranted = true
AutoGrantBranch(session, e) ==
    [calls |-> IF session.permissionMode # "default"
               THEN <<ToolCall(e.sessionID, e.callID, "pending", mapToolKind(e.tool))>>
               ELSE <<>>,
     ask |-> FALSE, fallThrough |-> TRUE, deny |-> FALSE]

PlanBranchNoContinue(e) ==
    [calls |-> <<ToolCallUpdate(e.sessionID, e.callID, "failed", "content",
                                BlockedInPlanMode)>>,
     ask |-> FALSE, fallThrough |-> TRUE, deny |-> TRUE]

\* plan: auto-deny, then continue
PlanBranch(e) ==
    [calls |-> <<ToolCallUpdate(e.sessionID, e.callID, "failed", "content",
                                BlockedInPlanMode)>>,
     ask |-> FALSE, fallThrough |-> FALSE, deny |-> TRUE]

DefaultBranchAskFirst(e) ==
    [calls |-> <<RequestPermission(e.sessionID, e.callID),
                 ToolCall(e.sessionID, e.callID, "pending", mapToolKind(e.tool))>>,
     ask |-> TRUE, fallThrough |-> FALSE, deny |-> FALSE]

DefaultBranchRemembersAllow(e) ==
    IF requests[<<e.sessionID, e.callID>>] > 0
          /\ <<e.sessionID, e.callID>> \notin denied
    THEN [calls |-> <<>>, ask |-> FALSE, fallThrough |-> TRUE, deny |-> FALSE]
    ELSE [calls |-> <<ToolCall(e.sessionID, e.callID, "pending", mapToolKind(e.tool)),
                      RequestPermission(e.sessionID, e.callID)>>,
          ask |-> TRUE, fallThrough |-> FALSE, deny |-> FALSE]

\* default: the tool_call notification, then the permission request
DefaultBranch(e) ==
    [calls |-> <<ToolCall(e.sessionID, e.callID, "pending", mapToolKind(e.tool)),
                 RequestPermission(e.sessionID, e.callID)>>,
     ask |-> TRUE, fallThrough |-> FALSE, deny |-> FALSE]

PendingTool(session, e) ==
    IF session.permissionMode \in {"bypassPermissions", "acceptEdits"}
    THEN AutoGrantBranch(session, e)
    ELSE IF session.permissionMode = "plan" THEN PlanBranch(e)
    ELSE DefaultBranch(e)

\* every part of a registered session that is neither text nor reasoning
HandleOtherPart(e, failAt) ==
    LET session == sessions[e.sessionID]
        arbiter == IF e.partType = "tool" /\ e.status = "pending"
                   THEN PendingTool(session, e)
                   ELSE [calls |-> <<>>, ask |-> FALSE, fallThrough |-> TRUE,
                         deny |-> FALSE]
        planned == arbiter.calls \o
                       (IF arbiter.fallThrough
                        THEN toAcpNotifications(FALSE, e, e.sessionID) ELSE <<>>)
        issued == Issued(planned, failAt)
    IN  /\ failAt \in 0..Len(planned)
        /\ out' = issued
        /\ pc' = IF Fails(planned, failAt) THEN "dead"
                 ELSE IF arbiter.ask THEN "awaitPermission" ELSE "idle"
        /\ denied' = IF arbiter.deny
                     THEN denied \cup {<<e.sessionID, e.callID>>} ELSE denied
        /\ requests' = IF \E i \in 1..Len(issued) : issued[i].call = "requestPermission"
                       THEN [requests EXCEPT ![<<e.sessionID, e.callID>>] = @ + 1]
                       ELSE requests
        /\ UNCHANGED <<sessions, recv, chunks>>

LoopReadyWhileAsking == pc # "dead"

LoopReadyAlways == TRUE

\* `for await` hands the loop its next event once the iteration before has
\* run to its end: every downstream call in it is awaited
LoopReady == pc = "idle"

\* `const { part } = ...properties; const sessionID = part.sessionID` throws a
\* TypeError when the event carries no part: the loop's async function ends
HasPart(e) == e.partType # "undefined"

PartUpdatedAnySession(e, failAt) ==
    /\ LoopReady
    /\ nEvents < MaxEvents
    /\ e \in PartUpdatedEvents \cup NamedToolEvents
    /\ nEvents' = nEvents + 1
    /\ cur' = CurOf(e)
    /\ UNCHANGED <<aborted, reply, termVars>>
    /\ IF ~HasPart(e)
       THEN /\ failAt = 0
            /\ out' = <<>>
            /\ pc' = "dead"
            /\ UNCHANGED <<sessions, recv, chunks, denied, requests>>
       ELSE IF IsEcho(e) \/ IsMalformed(e)
       THEN /\ failAt = 0
            /\ out' = <<>>
            /\ UNCHANGED <<sessions, pc, recv, chunks, denied, requests>>
       ELSE IF e.sessionID \notin Registered
       THEN /\ failAt = 0
            /\ out' = toAcpNotifications(FALSE, e, e.sessionID)
            /\ UNCHANGED <<sessions, pc, recv, chunks, denied, requests>>
       ELSE IF e.partType \in {"text", "reasoning"}
       THEN HandleDelta(e, failAt)
       ELSE HandleOtherPart(e, failAt)

\* one iteration of `for await (const event of events.stream)` for a
\* message.part.updated event, up to its end or to the permission request
PartUpdated(e, failAt) ==
    /\ LoopReady
    /\ nEvents < MaxEvents
    /\ e \in PartUpdatedEvents \cup NamedToolEvents
    /\ nEvents' = nEvents + 1
    /\ cur' = CurOf(e)
    /\ UNCHANGED <<aborted, reply, termVars>>
    /\ IF ~HasPart(e)
       THEN /\ failAt = 0
            /\ out' = <<>>
            /\ pc' = "dead"
            /\ UNCHANGED <<sessions, recv, chunks, denied, requests>>
       ELSE IF IsEcho(e) \/ IsMalformed(e) \/ e.sessionID \notin Registered
       THEN /\ failAt = 0
            /\ out' = <<>>
            /\ UNCHANGED <<sessions, pc, recv, chunks, denied, requests>>
       ELSE IF e.partType \in {"text", "reasoning"}
       THEN HandleDelta(e, failAt)
       ELSE HandleOtherPart(e, failAt)

MessageUpdatedNotifies(e) ==
    /\ LoopReady
    /\ nEvents < MaxEvents
    /\ e \in MessageUpdatedEvents
    /\ nEvents' = nEvents + 1
    /\ cur' = CurOf(e)
    /\ out' = IF e.sessionID \in Registered
              THEN <<Chunk(e.sessionID, "agent_message_chunk", <<>>)>> ELSE <<>>
    /\ UNCHANGED <<sessions, pc, recv, chunks, denied, requests>>
    /\ UNCHANGED <<aborted, reply, termVars>>

\* message.updated: handed to the session's messageUpdateResolver, if any
MessageUpdated(e) ==
    /\ LoopReady
    /\ nEvents < MaxEvents
    /\ e \in MessageUpdatedEvents
    /\ nEvents' = nEvents + 1
    /\ cur' = CurOf(e)
    /\ out' = <<>>
    /\ UNCHANGED <<sessions, pc, recv, chunks, denied, requests>>
    /\ UNCHANGED <<aborted, reply, termVars>>

\* ---- the client's answer to requestPermission
PermissionOutcomes ==
    {[outcome |-> "selected", optionId |-> "allow_once"],
     [outcome |-> "selected", optionId |-> "reject_once"],
     [outcome |-> "cancelled", optionId |-> "-"]}

ResponseName(r) == IF r.outcome = "selected" THEN r.optionId ELSE r.outcome

IsDeniedOnlyOnReject(r) == r.outcome = "selected" /\ r.optionId = "reject_once"

\* the denial test:
\* outcome.outcome !== "selected" || outcome.optionId !== "allow_once"
IsDenied(r) == r.outcome # "selected" \/ r.optionId # "allow_once"

PermissionResponseReadsMode(r, failAt) ==
    LET e == cur.e
        refused == IsDenied(r) \/ sessions[e.sessionID].permissionMode = "plan"
        planned == IF refused
                   THEN <<ToolCallUpdate(e.sessionID, e.callID, "failed", "content",
                                         PermissionDeniedText(e.tool))>>
                   ELSE toAcpNotifications(FALSE, e, e.sessionID)
    IN  /\ pc = "awaitPermission"
        /\ r \in PermissionOutcomes
        /\ failAt \in 0..Len(planned)
        /\ cur' = [cur EXCEPT !.response = ResponseName(r)]
        /\ out' = out \o Issued(planned, failAt)
        /\ pc' = IF Fails(planned, failAt) THEN "dead" ELSE "idle"
        /\ denied' = IF refused
                     THEN denied \cup {<<e.sessionID, e.callID>>} ELSE denied
        /\ UNCHANGED <<sessions, nEvents, recv, chunks, requests>>
        /\ UNCHANGED <<aborted, reply, termVars>>

\* requestPermission resolves with r: the rest of the iteration
PermissionResponse(r, failAt) ==
    LET e == cur.e
        planned == IF IsDenied(r)
                   THEN <<ToolCallUpdate(e.sessionID, e.callID, "failed", "content",
                                         PermissionDeniedText(e.tool))>>
                   ELSE toAcpNotifications(FALSE, e, e.sessionID)
    IN  /\ pc = "awaitPermission"
        /\ r \in PermissionOutcomes
        /\ failAt \in 0..Len(planned)
        /\ cur' = [cur EXCEPT !.response = ResponseName(r)]
        /\ out' = out \o Issued(planned, failAt)
        /\ pc' = IF Fails(planned, failAt) THEN "dead" ELSE "idle"
        /\ denied' = IF IsDenied(r)
                     THEN denied \cup {<<e.sessionID, e.callID>>} ELSE denied
        /\ UNCHANGED <<sessions, nEvents, recv, chunks, requests>>
        /\ UNCHANGED <<aborted, reply, termVars>>

\* requestPermission rejects: the loop's async function ends
PermissionRequestFails ==
    /\ pc = "awaitPermission"
    /\ pc' = "dead"
    /\ cur' = [cur EXCEPT !.response = "rejected"]
    /\ UNCHANGED <<sessions, out, nEvents, recv, chunks, denied, requests>>
    /\ UNCHANGED <<aborted, reply, termVars>>

\* ------------------------------------------------------------------ requests
\* Requests are served while the loop can still take an event or is waiting
\* for a permission response.
LoopLive == nEvents < MaxEvents \/ pc = "awaitPermission"

\* newSession: the upstream runtime issues the id; on failure it throws.
\* `out` records the loop's calls only: the available_commands_update the
\* timer sends later is not among them.
newSession(sessionId, ok) ==
    /\ LoopLive
    /\ sessionId \in SessionIds \ Registered
    /\ sessions' = IF ok THEN PutSession(sessions, sessionId, NewSessionRecord)
                   ELSE sessions
    /\ UNCHANGED <<loopVars, aborted, termVars>>

loadSessionRegistersLast(sessionId, outcome) ==
    /\ LoopLive
    /\ sessionId \in SessionIds
    /\ outcome \in {"verify", "history", "ok"}
    /\ sessions' = IF outcome = "ok"
                   THEN PutSession(sessions, sessionId, NewSessionRecord)
                   ELSE sessions
    /\ UNCHANGED <<loopVars, aborted, termVars>>

\* loadSession: outcome "verify" (session.get fails), "history"
\* (session.messages fails) or "ok"; the Session object is stored before the
\* history is fetched, over the one registered under the id if there is one.
\* The replay's calls go to the client outside the loop and are not in `out`.
loadSession(sessionId, outcome) ==
    /\ LoopLive
    /\ sessionId \in SessionIds
    /\ outcome \in {"verify", "history", "ok"}
    /\ sessions' = IF outcome = "verify" THEN sessions
                   ELSE PutSession(sessions, sessionId, NewSessionRecord)
    /\ UNCHANGED <<loopVars, aborted, termVars>>

setSessionModeAnyId(sessionId, modeId) ==
    /\ LoopLive
    /\ sessionId \in SessionIds
    /\ modeId \in Modes \cup {"other"}
    /\ sessions' = IF sessionId \in Registered
                   THEN [sessions EXCEPT ![sessionId].permissionMode = modeId]
                   ELSE sessions
    /\ UNCHANGED <<loopVars, aborted, termVars>>

setSessionMode(sessionId, modeId) ==
    /\ LoopLive
    /\ sessionId \in SessionIds
    /\ modeId \in Modes \cup {"other"}
    /\ sessions' = IF sessionId \in Registered /\ modeId \in Modes
                   THEN [sessions EXCEPT ![sessionId].permissionMode = modeId]
                   ELSE sessions
    /\ UNCHANGED <<loopVars, aborted, termVars>>

setSessionModeReply(sessionId, modeId) ==
    IF sessionId \notin Registered
    THEN Throw("setSessionMode", sessionId, modeId, "Session not found")
    ELSE IF modeId \in Modes
    THEN Return("setSessionMode", sessionId, modeId, "ok")
    ELSE Throw("setSessionMode", sessionId, modeId, "Invalid mode")

newSessionReply(sessionId, ok) ==
    IF ok THEN Return("newSession", sessionId, "-", "ok")
    ELSE Throw("newSession", sessionId, "-", "Failed to create session")

loadSessionReply(sessionId, outcome) ==
    IF outcome = "ok" THEN Return("loadSession", sessionId, "-", "ok")
    ELSE Throw("loadSession", sessionId, outcome, "Failed to load session")

\* ---- the replay of loadSession
MaxMessages == 2
MaxParts == 2

\* the parts of a stored message of session s1: a text, a reasoning and a
\* step-start part
HistoryParts ==
    {[BaseEvent EXCEPT !.sessionID = "s1", !.partType = "text", !.id = "p1",
                       !.text = <<"a">>, !.time = TRUE],
     [BaseEvent EXCEPT !.sessionID = "s1", !.partType = "reasoning", !.id = "p2",
                       !.text = <<"a", "b">>, !.time = TRUE],
     [BaseEvent EXCEPT !.sessionID = "s1", !.partType = "step-start"]}

SeqsUpTo(S, n) == UNION {[1..k -> S] : k \in 0..n}

\* a stored message: info.role, whether info.error is present (an assistant
\* message's property), and its parts
Messages ==
    {[role |-> "user", hasError |-> FALSE, parts |-> ps] :
        ps \in SeqsUpTo(HistoryParts, MaxParts) \ {<<>>}}
    \cup {[role |-> "assistant", hasError |-> err, parts |-> ps] :
            err \in BOOLEAN, ps \in SeqsUpTo(HistoryParts, MaxParts) \ {<<>>}}

RECURSIVE TotalParts(_)
TotalParts(history) ==
    IF history = <<>> THEN 0
    ELSE Len(Head(history).parts) + TotalParts(Tail(history))

\* the histories of at most MaxMessages messages and MaxParts parts in all
Histories ==
    {h \in SeqsUpTo(Messages, MaxMessages) : TotalParts(h) <= MaxParts}

ReplayPartAsLive(sessionId, message, part) ==
    IF message.role = "user"
    THEN IF part.partType = "text"
         THEN <<Chunk(sessionId, "user_message_chunk", part.text)>>
         ELSE <<>>
    ELSE IF part.partType = "reasoning"
    THEN <<Chunk(sessionId, "agent_thought_chunk", part.text)>>
    ELSE toAcpNotifications(message.hasError, part, sessionId)

ReplayPartNoInfo(sessionId, message, part) ==
    IF message.role = "user"
    THEN IF part.partType = "text"
         THEN <<Chunk(sessionId, "user_message_chunk", part.text)>>
         ELSE <<>>
    ELSE toAcpNotifications(FALSE, part, sessionId)

\* the calls replaying one part: a user message's text part is a
\* user_message_chunk, its other parts are skipped; an assistant message's
\* part goes through toAcpNotifications with the message's info
ReplayPart(sessionId, message, part) ==
    IF message.role = "user"
    THEN IF part.partType = "text"
         THEN <<Chunk(sessionId, "user_message_chunk", part.text)>>
         ELSE <<>>
    ELSE IF message.role = "assistant"
    THEN toAcpNotifications(message.hasError, part, sessionId)
    ELSE <<>>

RECURSIVE ReplayParts(_, _, _)
ReplayParts(sessionId, message, parts) ==
    IF parts = <<>> THEN <<>>
    ELSE ReplayPart(sessionId, message, Head(parts))
            \o ReplayParts(sessionId, message, Tail(parts))

RECURSIVE Replay(_, _)
Replay(sessionId, history) ==
    IF history = <<>> THEN <<>>
    ELSE ReplayParts(sessionId, Head(history), Head(history).parts)
            \o Replay(sessionId, Tail(history))

\* what loadSession returns or throws when session.messages gives `history`;
\* each replay call is awaited: failAt = 0, all resolve; otherwise the
\* failAt-th rejects and loadSession throws
loadSessionReplayReply(sessionId, outcome, history, failAt) ==
    IF outcome # "ok" THEN loadSessionReply(sessionId, outcome)
    ELSE LET planned == Replay(sessionId, history)
         IN  IF failAt \in 1..Len(planned)
             THEN [Throw("loadSession", sessionId, "-", "sessionUpdate rejected")
                      EXCEPT !.sent = SubSeq(planned, 1, failAt),
                             !.history = history]
             ELSE [Return("loadSession", sessionId, "-", "ok")
                      EXCEPT !.sent = planned, !.history = history]

cancelAbandonsRequest(sessionId, abortOk) ==
    /\ LoopLive
    /\ sessionId \in SessionIds
    /\ abortOk \in BOOLEAN
    /\ IF sessionId \in Registered
       THEN /\ sessions' = [sessions EXCEPT ![sessionId].cancelled = TRUE]
            /\ aborted' = aborted \cup {sessionId}
            /\ pc' = IF pc = "awaitPermission" /\ cur.e.sessionID = sessionId
                     THEN "idle" ELSE pc
       ELSE UNCHANGED <<sessions, aborted, pc>>
    /\ UNCHANGED <<cur, out, nEvents, recv, chunks, denied, requests, termVars>>

\* cancel: the flag, then the upstream session.abort, which resolves (abortOk)
\* or rejects; an unknown session id throws before either
cancel(sessionId, abortOk) ==
    /\ LoopLive
    /\ sessionId \in SessionIds
    /\ abortOk \in BOOLEAN
    /\ IF sessionId \in Registered
       THEN /\ sessions' = [sessions EXCEPT ![sessionId].cancelled = TRUE]
            /\ aborted' = aborted \cup {sessionId}
       ELSE UNCHANGED <<sessions, aborted>>
    /\ UNCHANGED <<loopVars, termVars>>

cancelReply(sessionId, abortOk) ==
    IF sessionId \notin Registered
    THEN Throw("cancel", sessionId, "-", "Session not found")
    ELSE IF abortOk THEN Return("cancel", sessionId, "-", "ok")
    ELSE Throw("cancel", sessionId, "-", "abort failed")

\* ---- slash commands
\* compact and summarize, new and clear share a case; "custom" stands for
\* every other command name, which goes to session.command
Commands ==
    {"help", "models", "compact", "summarize", "init", "new", "clear", "redo",
     "share", "undo", "unshare", "custom"}

\* What the upstream calls of a command meet: "ok"; "error", the call
\* resolves with an error (or no data); "rejects", the call's promise rejects;
\* "lookup", the call made first (getModelInfo for compact, summarize and
\* init, session.messages for undo) fails.  "-": the command makes none.
UpstreamOutcomes(command) ==
    IF command \in {"help", "new", "clear"} THEN {"-"}
    ELSE IF command \in {"compact", "summarize", "init", "undo"}
    THEN {"ok", "error", "rejects", "lookup"}
    ELSE {"ok", "error", "rejects"}

\* texts of the chunks a command sends; one element stands for the wording
HelpText == <<"Available slash commands:">>
ModelListText == <<"Available models:">>
NotSupportedText == <<"This agent does not support session management">>
ProcessingText == <<"Analyzing project structure">>
DoneText == <<"Done">>
CommandErrorText == <<"Error: ">>

\* the chunks sent one after the other, each awaited, outside any try block:
\* when the client connection rejects (downstream = "rejects") the first
\* send throws out of the command
SendAll(sessionId, texts, downstream) ==
    [threw |-> downstream = "rejects" /\ texts # <<>>,
     sent |-> [i \in 1..(IF downstream = "rejects" /\ texts # <<>> THEN 1 ELSE Len(texts))
                  |-> Chunk(sessionId, "agent_message_chunk", texts[i])]]

\* try { upstream call(s); send done } catch { send the error chunk }
TryThenReport(sessionId, failed, downstream) ==
    IF downstream = "rejects"
    THEN [threw |-> TRUE,
          sent |-> (IF failed THEN <<>>
                    ELSE <<Chunk(sessionId, "agent_message_chunk", DoneText)>>)
                   \o <<Chunk(sessionId, "agent_message_chunk", CommandErrorText)>>]
    ELSE SendAll(sessionId, <<IF failed THEN CommandErrorText ELSE DoneText>>, downstream)

\* handleCommand for a registered session: whether it threw (else it
\* returned true) and the chunks it sent
handleCommand(sessionId, command, upstream, downstream) ==
    CASE command = "help" -> SendAll(sessionId, <<HelpText>>, downstream)
      [] command = "models" ->
            IF upstream = "error" THEN [threw |-> FALSE, sent |-> <<>>]
            ELSE IF upstream = "rejects" THEN [threw |-> TRUE, sent |-> <<>>]
            ELSE SendAll(sessionId, <<ModelListText>>, downstream)
      [] command \in {"compact", "summarize"} ->
            IF upstream \in {"lookup", "rejects"}
            THEN SendAll(sessionId, <<CommandErrorText>>, downstream)
            ELSE [threw |-> FALSE, sent |-> <<>>]
      [] command = "init" ->
            IF downstream = "rejects"
            THEN SendAll(sessionId, <<ProcessingText>>, downstream)
            ELSE SendAll(sessionId,
                         <<ProcessingText,
                           IF upstream = "ok" THEN DoneText ELSE CommandErrorText>>,
                         downstream)
      [] command \in {"new", "clear"} ->
            SendAll(sessionId, <<NotSupportedText>>, downstream)
      [] command = "redo" ->
            TryThenReport(sessionId, upstream = "rejects", downstream)
      [] command = "undo" ->
            TryThenReport(sessionId, upstream \in {"lookup", "rejects"}, downstream)
      [] OTHER ->
            [threw |-> upstream = "rejects", sent |-> <<>>]

\* ---- prompt
\* A prompt is either a slash command (its first part is a text starting with
\* "/"), which goes to handleCommand, or is sent upstream, where
\* session.prompt reports an error, gives no data, or gives a final message
\* whose info.error is absent ("none") or carries a name.
PromptInputs ==
    {[slash |-> TRUE, command |-> c, upstream |-> u, downstream |-> d,
      errorName |-> "-"] :
        c \in Commands, u \in {"-", "ok", "error", "rejects", "lookup"},
        d \in {"ok", "rejects"}}
    \cup {[slash |-> FALSE, command |-> "-", upstream |-> u, downstream |-> "-",
           errorName |-> "-"] : u \in {"error", "empty"}}
    \cup {[slash |-> FALSE, command |-> "-", upstream |-> "data", downstream |-> "-",
           errorName |-> n] :
        n \in {"none", "MessageAbortedError", "ProviderAuthError", "UnknownError"}}

PromptArg(input) ==
    IF input.slash THEN "/" ELSE "text"

StopReasonByPresence(errorName) ==
    IF errorName # "none" THEN "cancelled" ELSE "end_turn"

\* the stop reason of the final message
StopReason(errorName) ==
    IF errorName # "none"
    THEN IF errorName = "MessageAbortedError" THEN "cancelled" ELSE "refusal"
    ELSE "end_turn"

promptResultCustomFallsThrough(sessionId, input) ==
    IF sessionId \notin Registered
    THEN Throw("prompt", sessionId, PromptArg(input), "Session not found")
    ELSE IF input.slash /\ input.command # "custom"
    THEN LET handled == handleCommand(sessionId, input.command, input.upstream,
                                      input.downstream)
         IN  IF handled.threw
             THEN [Throw("prompt", sessionId, PromptArg(input), "command failed")
                      EXCEPT !.sent = handled.sent]
             ELSE [Return("prompt", sessionId, PromptArg(input), "end_turn")
                      EXCEPT !.sent = handled.sent]
    ELSE IF input.upstream = "error"
    THEN [Throw("prompt", sessionId, PromptArg(input), "promptError")
             EXCEPT !.upstreamPrompt = TRUE]
    ELSE IF input.upstream = "empty"
    THEN [Throw("prompt", sessionId, PromptArg(input),
                "Unexpected empty response from Opencode prompt.")
             EXCEPT !.upstreamPrompt = TRUE]
    ELSE [Return("prompt", sessionId, PromptArg(input),
                 IF input.slash THEN "refusal" ELSE StopReason(input.errorName))
             EXCEPT !.upstreamPrompt = TRUE]

promptResult(sessionId, input) ==
    IF sessionId \notin Registered
    THEN Throw("prompt", sessionId, PromptArg(input), "Session not found")
    ELSE IF input.slash
    THEN LET handled == handleCommand(sessionId, input.command, input.upstream,
                                      input.downstream)
         IN  IF handled.threw
             THEN [Throw("prompt", sessionId, PromptArg(input), "command failed")
                      EXCEPT !.sent = handled.sent]
             ELSE [Return("prompt", sessionId, PromptArg(input), "end_turn")
                      EXCEPT !.sent = handled.sent]
    ELSE IF input.upstream = "error"
    THEN [Throw("prompt", sessionId, PromptArg(input), "promptError")
             EXCEPT !.upstreamPrompt = TRUE]
    ELSE IF input.upstream = "empty"
    THEN [Throw("prompt", sessionId, PromptArg(input),
                "Unexpected empty response from Opencode prompt.")
             EXCEPT !.upstreamPrompt = TRUE]
    ELSE [Return("prompt", sessionId, PromptArg(input), StopReason(input.errorName))
             EXCEPT !.upstreamPrompt = TRUE]

promptReply(sessionId, input) ==
    [promptResult(sessionId, input) EXCEPT !.input = input]

\* prompt: the only local effect is cancelled = false on the session
prompt(sessionId, input) ==
    /\ LoopLive
    /\ sessionId \in SessionIds
    /\ input \in PromptInputs
    /\ input.slash => input.upstream \in UpstreamOutcomes(input.command)
    /\ sessions' = IF sessionId \in Registered
                   THEN [sessions EXCEPT ![sessionId].cancelled = FALSE]
                   ELSE sessions
    /\ UNCHANGED <<loopVars, aborted, termVars>>

\* --------------------------------------------------------------- terminals
Tracked(terminalId) == terminalId \in backgroundTerminals

NotFound(op, terminalId) == Throw(op, terminalId, "-", "Terminal not found")

createTerminalStoresFirst(terminalId, ok) ==
    /\ terminalId \in TerminalIds
    /\ heap[terminalId] = NoTerminal
    /\ heap' = [heap EXCEPT ![terminalId] = NewTerminal]
    /\ backgroundTerminals' = backgroundTerminals \cup {terminalId}
    /\ reply' = IF ok THEN Return("createTerminal", terminalId, "-", "ok")
                ELSE Throw("createTerminal", "-", "-", "Failed to create terminal")
    /\ UNCHANGED <<sessions, loopVars, aborted, waits>>

\* createTerminal: a fresh id; the record is stored when session.shell gave
\* a shell id, otherwise the call throws
createTerminal(terminalId, ok) ==
    /\ terminalId \in TerminalIds
    /\ heap[terminalId] = NoTerminal
    /\ IF ok
       THEN /\ heap' = [heap EXCEPT ![terminalId] = NewTerminal]
            /\ backgroundTerminals' = backgroundTerminals \cup {terminalId}
            /\ reply' = Return("createTerminal", terminalId, "-", "ok")
       ELSE /\ UNCHANGED <<heap, backgroundTerminals>>
            /\ reply' = Throw("createTerminal", "-", "-", "Failed to create terminal")
    /\ UNCHANGED <<sessions, loopVars, aborted, waits>>

terminalOutput(terminalId) ==
    /\ terminalId \in TerminalIds
    /\ reply' = IF Tracked(terminalId)
                THEN [Return("terminalOutput", terminalId, "-", "ok")
                         EXCEPT !.exitStatus = heap[terminalId].exitStatus,
                                !.output = heap[terminalId].output]
                ELSE NotFound("terminalOutput", terminalId)
    /\ UNCHANGED <<sessions, loopVars, aborted, termVars>>

WaitDoneAlways(terminal) == TRUE

\* the loop test of waitForTerminalExit, negated
WaitDone(terminal) == terminal.status # "started"

\* exitStatus?.exitCode ?? null, exitStatus?.signal ?? null
ExitResult(terminal) ==
    IF terminal.exitStatus = {}
    THEN [at |-> "returned", exitCode |-> Null, signal |-> Null]
    ELSE LET exitStatus == CHOOSE x \in terminal.exitStatus : TRUE
         IN  [at |-> "returned", exitCode |-> exitStatus.exitCode,
              signal |-> exitStatus.signal]

\* the call of waitForTerminalExit up to its first await or its return; it
\* keeps the object it found under the id
waitForTerminalExit(terminalId) ==
    /\ terminalId \in TerminalIds
    /\ waits[terminalId].at = "none"
    /\ waits' = [waits EXCEPT ![terminalId] =
                    IF ~Tracked(terminalId) THEN [NoWait EXCEPT !.at = "threw"]
                    ELSE IF WaitDone(heap[terminalId]) THEN ExitResult(heap[terminalId])
                    ELSE [NoWait EXCEPT !.at = "polling"]]
    /\ UNCHANGED <<sessions, loopVars, aborted, reply, heap, backgroundTerminals>>

\* the 500 ms timer of a waiting call fires: the loop test is made again on
\* the object the call holds
Poll(terminalId) ==
    /\ terminalId \in TerminalIds
    /\ waits[terminalId].at = "polling"
    /\ waits' = [waits EXCEPT ![terminalId] =
                    IF WaitDone(heap[terminalId]) THEN ExitResult(heap[terminalId])
                    ELSE @]
    /\ UNCHANGED <<sessions, loopVars, aborted, reply, heap, backgroundTerminals>>

terminal_killRecordsExit(terminalId) ==
    /\ terminalId \in TerminalIds
    /\ IF Tracked(terminalId)
       THEN /\ heap' = [heap EXCEPT
                  ![terminalId].status = "killed",
                  ![terminalId].exitStatus = {[exitCode |-> Null, signal |-> "SIGKILL"]}]
            /\ reply' = Return("terminal/kill", terminalId, "-", "ok")
       ELSE /\ UNCHANGED heap
            /\ reply' = NotFound("terminal/kill", terminalId)
    /\ UNCHANGED <<sessions, loopVars, aborted, backgroundTerminals, waits>>

terminal_killAnyObject(terminalId) ==
    /\ terminalId \in TerminalIds
    /\ IF heap[terminalId] # NoTerminal
       THEN /\ heap' = [heap EXCEPT ![terminalId].status = "killed"]
            /\ reply' = Return("terminal/kill", terminalId, "-", "ok")
       ELSE /\ UNCHANGED heap
            /\ reply' = NotFound("terminal/kill", terminalId)
    /\ UNCHANGED <<sessions, loopVars, aborted, backgroundTerminals, waits>>

\* "terminal/kill"
terminal_kill(terminalId) ==
    /\ terminalId \in TerminalIds
    /\ IF Tracked(terminalId)
       THEN /\ heap' = [heap EXCEPT ![terminalId].status = "killed"]
            /\ reply' = Return("terminal/kill", terminalId, "-", "ok")
       ELSE /\ UNCHANGED heap
            /\ reply' = NotFound("terminal/kill", terminalId)
    /\ UNCHANGED <<sessions, loopVars, aborted, backgroundTerminals, waits>>

releaseTerminal(terminalId) ==
    /\ terminalId \in TerminalIds
    /\ backgroundTerminals' = backgroundTerminals \ {terminalId}
    /\ reply' = IF Tracked(terminalId)
                THEN Return("releaseTerminal", terminalId, "-", "ok")
                ELSE NotFound("releaseTerminal", terminalId)
    /\ UNCHANGED <<sessions, loopVars, aborted, heap, waits>>

\* The exit, abort and timeout of a terminal's process, as the specification
\* describes them: they move a tracked terminal out of started once and
\* record its exit status.
Markings ==
    {[status |-> "exited", exitStatus |-> {[exitCode |-> "0", signal |-> Null]}],
     [status |-> "exited", exitStatus |-> {[exitCode |-> "1", signal |-> Null]}],
     [status |-> "aborted", exitStatus |-> {}],
     [status |-> "timedOut", exitStatus |-> {}]}

markTerminal(terminalId, marking) ==
    /\ terminalId \in TerminalIds
    /\ marking \in Markings
    /\ Tracked(terminalId)
    /\ heap[terminalId].status = "started"
    /\ heap' = [heap EXCEPT ![terminalId].status = marking.status,
                            ![terminalId].exitStatus = marking.exitStatus]
    /\ UNCHANGED <<sessions, loopVars, aborted, reply, backgroundTerminals, waits>>

\* ------------------------------------------------------- the specifications
\* Spec: the event loop over every kind of event, with the requests that
\* create or change sessions.
Next ==
    \/ \E e \in PartUpdatedEvents, failAt \in 0..2 : PartUpdated(e, failAt)
    \/ \E e \in MessageUpdatedEvents : MessageUpdated(e)
    \/ \E r \in PermissionOutcomes, failAt \in 0..1 : PermissionResponse(r, failAt)
    \/ PermissionRequestFails
    \/ \E s \in SessionIds, ok \in BOOLEAN : newSession(s, ok) /\ UNCHANGED reply
    \/ \E s \in SessionIds, o \in {"verify", "history", "ok"} :
          loadSession(s, o) /\ UNCHANGED reply
    \/ \E s \in SessionIds, m \in Modes \cup {"other"} :
          setSessionMode(s, m) /\ UNCHANGED reply

Spec == Init /\ [][Next]_vars

\* SpecToolKind: the event loop over pending tool parts of one session under
\* many tool names, in every mode.
NextToolKind ==
    \/ \E e \in NamedToolEvents : PartUpdated(e, 0)
    \/ \E r \in PermissionOutcomes : PermissionResponse(r, 0)
    \/ newSession("s1", TRUE) /\ UNCHANGED reply
    \/ \E m \in Modes : setSessionMode("s1", m) /\ UNCHANGED reply

SpecToolKind == Init /\ [][NextToolKind]_vars

\* SpecCancel: the event loop over the updates of one tool call per session,
\* with cancel among the requests.
CancelEvents == {e \in ToolEvents : e.callID = "c1"}

NextCancel ==
    \/ \E e \in CancelEvents : PartUpdated(e, 0)
    \/ \E r \in PermissionOutcomes : PermissionResponse(r, 0)
    \/ \E s \in SessionIds : newSession(s, TRUE) /\ UNCHANGED reply
    \/ \E s \in SessionIds, m \in Modes : setSessionMode(s, m) /\ UNCHANGED reply
    \/ \E s \in SessionIds, abortOk \in BOOLEAN : cancel(s, abortOk) /\ UNCHANGED reply

SpecCancel == Init /\ [][NextCancel]_vars

\* SpecRequests: the requests on sessions with what each returns or throws,
\* before any upstream event.
NextRequests ==
    \/ \E s \in SessionIds, ok \in BOOLEAN :
          newSession(s, ok) /\ reply' = newSessionReply(s, ok)
    \/ \E s \in SessionIds, o \in {"verify", "history", "ok"} :
          loadSession(s, o) /\ reply' = loadSessionReply(s, o)
    \/ \E s \in SessionIds, m \in Modes \cup {"other"} :
          setSessionMode(s, m) /\ reply' = setSessionModeReply(s, m)
    \/ \E s \in SessionIds, abortOk \in BOOLEAN :
          cancel(s, abortOk) /\ reply' = cancelReply(s, abortOk)
    \/ \E s \in SessionIds, input \in PromptInputs :
          prompt(s, input) /\ reply' = promptReply(s, input)

SpecRequests == Init /\ [][NextRequests]_vars

\* SpecReplay: live reasoning and other parts of session s1, and loadSession
\* of s1 replaying a stored history.
ReplayLiveEvents ==
    {e \in ReasoningEvents :
        e.sessionID = "s1" /\ e.text \in {<<"a">>, <<"a", "b">>, <<"b">>}}
    \cup {e \in OtherPartEvents :
            e.sessionID = "s1" /\ e.partType \in {"patch", "step-start"}}

NextReplay ==
    \/ \E e \in ReplayLiveEvents : PartUpdated(e, 0)
    \/ newSession("s1", TRUE) /\ UNCHANGED reply
    \/ \E o \in {"verify", "history", "ok"}, h \in Histories, failAt \in 0..1 :
          /\ o # "ok" => (h = <<>> /\ failAt = 0)
          /\ loadSession("s1", o)
          /\ reply' = loadSessionReplayReply("s1", o, h, failAt)

SpecReplay == Init /\ [][NextReplay]_vars

\* SpecMarkedTerminals: the terminal operations, with the exit, abort and
\* timeout of the terminals' processes.
NextMarkedTerminals ==
    \/ \E t \in TerminalIds, ok \in BOOLEAN : createTerminal(t, ok)
    \/ \E t \in TerminalIds : terminalOutput(t)
    \/ \E t \in TerminalIds : waitForTerminalExit(t)
    \/ \E t \in TerminalIds : Poll(t)
    \/ \E t \in TerminalIds : terminal_kill(t)
    \/ \E t \in TerminalIds : releaseTerminal(t)
    \/ \E t \in TerminalIds, marking \in Markings : markTerminal(t, marking)

SpecMarkedTerminals == Init /\ [][NextMarkedTerminals]_vars

\* SpecTerminals: the agent's terminal operations alone.  Nothing in the
\* agent moves a terminal out of started but terminal/kill.
NextTerminals ==
    \/ \E t \in TerminalIds, ok \in BOOLEAN : createTerminal(t, ok)
    \/ \E t \in TerminalIds : terminalOutput(t)
    \/ \E t \in TerminalIds : waitForTerminalExit(t)
    \/ \E t \in TerminalIds : Poll(t)
    \/ \E t \in TerminalIds : terminal_kill(t)
    \/ \E t \in TerminalIds : releaseTerminal(t)

SpecTerminals == Init /\ [][NextTerminals]_vars

\* the 500 ms timer of a waiting call, once set, fires: the event loop of the
\* runtime runs every due timer
SpecTerminalsFair ==
    SpecTerminals /\ WF_vars(Poll("t1")) /\ WF_vars(Poll("t2"))

\* ------------------------------------------------------------------- claims
OutIdx == 1..Len(out)

\* the loop has finished the iteration for cur
Finished == pc # "awaitPermission"

IsPartUpdate(e) == e.type = "message.part.updated"

\* cur is a part update of a registered session that passed the echo filter
Reached == IsPartUpdate(cur.e) /\ cur.known /\ ~(cur.e.partType = "text" /\ ~cur.e.time)

IsPendingTool(e) == IsPartUpdate(e) /\ e.partType = "tool" /\ e.status = "pending"

IsToolCallFor(c, e, status) ==
    /\ c.call = "sessionUpdate" /\ c.sessionUpdate = "tool_call"
    /\ c.sessionId = e.sessionID /\ c.toolCallId = e.callID /\ c.status = status

IsToolCallUpdateFor(c, e, status) ==
    /\ c.call = "sessionUpdate" /\ c.sessionUpdate = "tool_call_update"
    /\ c.sessionId = e.sessionID /\ c.toolCallId = e.callID /\ c.status = status

IsRequestFor(c, e) ==
    c.call = "requestPermission" /\ c.sessionId = e.sessionID /\ c.toolCallId = e.callID

Last(seq) == seq[Len(seq)]

Monotone(texts) == \A i \in 1..(Len(texts) - 1) : IsPrefix(texts[i], texts[i + 1])

\* C1: for every session and part, if the texts received for the part are
\* each a prefix of the next, the concatenation of the chunks sent for the
\* part equals the last text received.
C1_DeltaConcatenation ==
    \A sp \in SessionIds \X PartIds :
        (recv[sp] # <<>> /\ Monotone(recv[sp])) => chunks[sp] = Last(recv[sp])

\* C2: the loop never sends a message or thought chunk with empty text, and
\* a text or reasoning update whose delta (the text beyond the length of the
\* stored one) is empty produces no downstream call at all.
C2_NoEmptyChunk ==
    /\ \A i \in OutIdx :
          (out[i].sessionUpdate \in {"agent_message_chunk", "agent_thought_chunk"}
              /\ out[i].content = "text") => out[i].text # <<>>
    /\ (Reached /\ cur.e.partType \in {"text", "reasoning"}
          /\ Len(cur.e.text) <= Len(cur.previousText)) => out = <<>>

C2_Witness ==
    /\ Reached /\ cur.e.partType \in {"text", "reasoning"}
    /\ cur.previousText # <<>> /\ Len(cur.e.text) <= Len(cur.previousText)
    /\ out = <<>>

\* C3: taking up a text part update that has no timestamp issues no
\* downstream call and leaves the session table, hence every deltaState,
\* unchanged, whatever its text and session.
C3_EchoDropped ==
    [][(nEvents' # nEvents /\ IsPartUpdate(cur'.e)
          /\ cur'.e.partType = "text" /\ ~cur'.e.time)
        => (out' = <<>> /\ sessions' = sessions /\ pc' = "idle")]_vars

C3_Witness ==
    /\ IsPartUpdate(cur.e) /\ cur.e.partType = "text" /\ ~cur.e.time
    /\ cur.known /\ cur.e.text # <<>>
    /\ cur.previousText # <<>> /\ cur.previousText # cur.e.text
    /\ sessions[cur.e.sessionID].lastSentTextByMessagePartId[cur.e.id] = cur.previousText
    /\ out = <<>>

\* C4: a pending tool part of a session in plan mode yields exactly one
\* downstream call, a tool_call_update with status failed for its callID,
\* and no permission request.
C4_PlanAutoDeny ==
    (Reached /\ IsPendingTool(cur.e) /\ cur.mode = "plan") =>
        /\ Finished
        /\ Len(out) = 1
        /\ IsToolCallUpdateFor(out[1], cur.e, "failed")

C4_Witness ==
    /\ Reached /\ IsPendingTool(cur.e) /\ cur.mode = "plan"
    /\ pc = "idle" /\ Len(out) = 1 /\ IsToolCallUpdateFor(out[1], cur.e, "failed")

\* C5: a pending tool part of a session in bypassPermissions or acceptEdits
\* mode yields exactly one tool_call notification with status pending for
\* its callID and no permission request.
C5_AutoGrantOnePending ==
    (Reached /\ IsPendingTool(cur.e) /\ pc = "idle"
        /\ cur.mode \in {"bypassPermissions", "acceptEdits"}) =>
        /\ Cardinality({i \in OutIdx : IsToolCallFor(out[i], cur.e, "pending")}) = 1
        /\ \A i \in OutIdx : out[i].call # "requestPermission"

\* C6: in default mode, after a selected allow_once nothing more is sent for
\* the pending event: the tool_call with status pending is sent once.
C6_AllowOnceNothingMore ==
    (Reached /\ IsPendingTool(cur.e) /\ cur.mode = "default"
        /\ cur.response = "allow_once" /\ pc = "idle") =>
        /\ IsRequestFor(Last(out), cur.e)
        /\ Cardinality({i \in OutIdx : IsToolCallFor(out[i], cur.e, "pending")}) = 1

\* C7: in default mode, a permission response other than a selected
\* allow_once yields exactly one tool_call_update with status failed for the
\* callID, and it is the last call of the event.
C7_DenialFails ==
    (Reached /\ IsPendingTool(cur.e) /\ cur.mode = "default"
        /\ cur.response \in {"reject_once", "cancelled"}) =>
        /\ Finished
        /\ Cardinality({i \in OutIdx : IsToolCallUpdateFor(out[i], cur.e, "failed")}) = 1
        /\ IsToolCallUpdateFor(Last(out), cur.e, "failed")
        /\ IsRequestFor(out[Len(out) - 1], cur.e)

C7_Witness ==
    /\ Reached /\ IsPendingTool(cur.e) /\ cur.mode = "default"
    /\ cur.response = "cancelled" /\ pc = "idle"
    /\ IsToolCallUpdateFor(Last(out), cur.e, "failed")

\* C8: in default mode the tool_call notification with status pending for a
\* callID precedes the permission request for that callID, and every pending
\* tool part of a default-mode session whose notification went through is
\* followed by the request.
C8_PendingBeforeRequest ==
    /\ \A i \in OutIdx :
          out[i].call = "requestPermission" =>
              /\ cur.mode = "default"
              /\ \E j \in 1..(i - 1) : IsToolCallFor(out[j], cur.e, "pending")
    /\ (Reached /\ IsPendingTool(cur.e) /\ cur.mode = "default" /\ pc # "dead") =>
          (Len(out) >= 2 /\ IsToolCallFor(out[1], cur.e, "pending")
              /\ IsRequestFor(out[2], cur.e))

C8_Witness ==
    /\ pc = "awaitPermission" /\ cur.mode = "default"
    /\ Len(out) = 2 /\ IsToolCallFor(out[1], cur.e, "pending")
    /\ IsRequestFor(out[2], cur.e)

\* C9: a tool part update with status running, completed or error yields
\* exactly one downstream call, a tool_call_update for the same callID with
\* status in_progress, completed and failed respectively.
C9_ToolTransitions ==
    (Reached /\ cur.e.partType = "tool"
        /\ cur.e.status \in {"running", "completed", "error"}) =>
        /\ Finished
        /\ Len(out) = 1
        /\ IsToolCallUpdateFor(out[1], cur.e,
              CASE cur.e.status = "running" -> "in_progress"
                [] cur.e.status = "completed" -> "completed"
                [] cur.e.status = "error" -> "failed")

C9_Witness ==
    /\ Reached /\ cur.e.partType = "tool" /\ cur.e.status = "error"
    /\ nEvents = 2 /\ Len(out) = 1 /\ IsToolCallUpdateFor(out[1], cur.e, "failed")

\* C10: once a tool call was reported failed because it was denied, no later
\* downstream call is issued for that callID.
C10_FailedIsFinal ==
    cur.deniedBefore => \A i \in OutIdx : out[i].toolCallId # cur.e.callID

\* C11: over the whole run at most one permission request is issued for each
\* tool call (callID of a session), however many pending snapshots of the
\* tool part upstream delivers.
C11_OneRequestPerCall ==
    \A sc \in SessionIds \X CallIds : requests[sc] <= 1

DeltaState(table, s) == table[s].lastSentTextByMessagePartId

C13_ArrivalOrder ==
    [][/\ nEvents' # nEvents =>
              (pc = "idle" /\ nEvents' = nEvents + 1)
       /\ nEvents' = nEvents =>
              (cur'.e = cur.e /\ IsPrefix(out, out')
                 /\ (out' # out => pc = "awaitPermission"))]_vars

C13_Witness ==
    /\ nEvents = MaxEvents
    /\ pc = "idle"
    /\ cur.response = "allow_once"
    /\ Len(out) >= 3
    /\ \E s \in Registered : s # cur.e.sessionID /\ DeltaState(sessions, s) # EmptyMap

\* a step in which a session becomes cancelled or an upstream abort is issued
CancelStep ==
    \/ aborted' # aborted
    \/ \E s \in DOMAIN sessions \cap DOMAIN sessions' :
          ~sessions[s].cancelled /\ sessions'[s].cancelled

\* C14: a cancel on a registered session sets that session's cancelled flag
\* and issues one upstream abort for it, and changes nothing else: the event
\* loop stays where it is (an outstanding permission request stays
\* outstanding) and no downstream call is issued.  The flag alters no event
\* handling: a tool part update of a cancelled session is handled as of any
\* other, a pending one in default mode asking for permission.
C14_CancelOnlyFlagsAndAborts ==
    [][/\ CancelStep =>
              /\ \E s \in Registered :
                    /\ sessions' = [sessions EXCEPT ![s].cancelled = TRUE]
                    /\ aborted' = aborted \cup {s}
              /\ UNCHANGED <<pc, cur, out, nEvents, recv, chunks, denied, requests>>
       /\ (nEvents' # nEvents /\ cur'.known /\ cur'.cancelled) =>
              /\ out' # <<>>
              /\ \A i \in 1..Len(out') : out'[i].toolCallId = cur'.e.callID
              /\ (IsPendingTool(cur'.e) /\ cur'.mode = "default") =>
                    (pc' = "awaitPermission" /\ IsRequestFor(Last(out'), cur'.e))]_vars

C14_Witness ==
    /\ pc = "awaitPermission"
    /\ ~cur.cancelled
    /\ sessions[cur.e.sessionID].cancelled
    /\ cur.e.sessionID \in aborted
    /\ IsRequestFor(Last(out), cur.e)

\* C15: a background terminal that has left started keeps its status for as
\* long as it is tracked, whatever operation is served; terminal/kill on a
\* terminal that is exited, aborted, killed or timedOut leaves its status.
C15_TerminalStatusFinal ==
    [][\A t \in TerminalIds :
          (t \in backgroundTerminals /\ t \in backgroundTerminals'
              /\ heap[t].status # "started")
          => heap'[t].status = heap[t].status]_vars

\* C16: a waitForTerminalExit call returns only in a step that finds the
\* terminal's status other than started, and returns the exit code and
\* signal stored on the terminal then (both null when no exit status is
\* stored); once it has returned it polls no more and its result stands.
C16_WaitReturnsStoredStatus ==
    [][\A t \in TerminalIds :
          /\ (waits[t].at # "returned" /\ waits'[t].at = "returned") =>
                /\ heap[t].status \notin {"-", "started"}
                /\ heap'[t] = heap[t]
                /\ IF heap[t].exitStatus = {}
                   THEN waits'[t].exitCode = Null /\ waits'[t].signal = Null
                   ELSE heap[t].exitStatus =
                            {[exitCode |-> waits'[t].exitCode,
                              signal |-> waits'[t].signal]}
          /\ waits[t].at = "returned" => waits'[t] = waits[t]]_vars

C16_Witness ==
    \E t \in TerminalIds :
        /\ waits[t] = [at |-> "returned", exitCode |-> "0", signal |-> Null]
        /\ heap[t].status = "exited"
        /\ heap[t].exitStatus = {[exitCode |-> "0", signal |-> Null]}

\* C17: taking up a message.part.updated event that carries no session id
\* or no part issues no downstream call and changes no state, and leaves the
\* loop running, ready for the next event.
C17_MalformedDropped ==
    [][(nEvents' # nEvents /\ IsPartUpdate(cur'.e)
          /\ (cur'.e.sessionID = NoSessionId \/ ~HasPart(cur'.e)))
        => (/\ out' = <<>>
            /\ pc' = "idle"
            /\ UNCHANGED <<sessions, recv, chunks, denied, requests>>)]_vars

\* C18: the loop is never ended by the failure of a downstream call: after a
\* sessionUpdate or a permission request made for an event has rejected, the
\* loop is still running.
C18_DownstreamFailureSurvived ==
    (IsPartUpdate(cur.e) /\ HasPart(cur.e)) => pc # "dead"

StopReasons == {"end_turn", "cancelled", "refusal"}

\* a prompt that returned the stop reason the final message's error maps to
C19_Mapped ==
    /\ reply.result \in StopReasons
    /\ (~reply.input.slash /\ reply.input.errorName = "MessageAbortedError")
          => reply.result = "cancelled"
    /\ (~reply.input.slash
          /\ reply.input.errorName \notin {"none", "MessageAbortedError"})
          => reply.result = "refusal"
    /\ (~reply.input.slash /\ reply.input.errorName = "none")
          => reply.result = "end_turn"

\* the three cases in which the claim lets prompt throw
C19_MayThrow ==
    \/ ~reply.known
    \/ (~reply.input.slash /\ reply.input.upstream \in {"error", "empty"})

\* C19: a prompt that throws does so because the session is unknown, the
\* upstream prompt call reported an error or its response was empty; every
\* other prompt returns a stop reason: cancelled for a final message with
\* error MessageAbortedError, refusal for one with any other error, end_turn
\* for one without error.
C19_PromptStopReason ==
    reply.op = "prompt" =>
        IF reply.threw THEN C19_MayThrow ELSE C19_Mapped

\* C19, amended: prompt also throws when it is a slash command whose
\* handling throws; in the three cases of the claim and in this one it
\* throws, and in every other it returns the stop reason as mapped.
C19_PromptStopReasonOrCommandFails ==
    reply.op = "prompt" =>
        IF reply.threw
        THEN C19_MayThrow \/ reply.input.slash
        ELSE C19_Mapped /\ ~C19_MayThrow

C19_Witness ==
    /\ reply.op = "prompt"
    /\ reply.known
    /\ ~reply.threw
    /\ reply.input.errorName = "ProviderAuthError"
    /\ reply.result = "refusal"

\* C20: every session's permissionMode is one of the four modes, default
\* when the session is registered; a setSessionMode for a registered
\* session with one of the four ids returns and sets that session's mode to
\* the id, changing nothing else; with any other id or an unknown session it
\* throws and leaves the session table as it was.
C20_ModeSetOrRejected ==
    [][/\ \A s \in DOMAIN sessions' : sessions'[s].permissionMode \in Modes
       /\ \A s \in DOMAIN sessions' \ DOMAIN sessions :
             sessions'[s].permissionMode = "default"
       /\ reply'.op = "setSessionMode" =>
             IF reply'.id \in DOMAIN sessions /\ reply'.arg \in Modes
             THEN /\ ~reply'.threw
                  /\ sessions' = [sessions EXCEPT
                                     ![reply'.id].permissionMode = reply'.arg]
             ELSE /\ reply'.threw
                  /\ sessions' = sessions]_vars

C20_Witness ==
    /\ reply.op = "setSessionMode"
    /\ ~reply.threw
    /\ reply.arg = "plan"
    /\ sessions[reply.id].permissionMode = "plan"
    /\ \E s \in Registered : sessions[s].permissionMode = "acceptEdits"

\* C21: no step removes a session or an entry of its deltaState, and an
\* entry changes only in the step that takes a text or reasoning update of
\* that part of that session, which stores the update's text.
C21_DeltaStateKept ==
    [][\A s \in DOMAIN sessions :
          /\ s \in DOMAIN sessions'
          /\ \A p \in DOMAIN DeltaState(sessions, s) :
                /\ p \in DOMAIN DeltaState(sessions', s)
                /\ \/ DeltaState(sessions', s)[p] = DeltaState(sessions, s)[p]
                   \/ /\ nEvents' # nEvents
                      /\ cur'.e.sessionID = s /\ cur'.e.id = p
                      /\ DeltaState(sessions', s)[p] = cur'.e.text]_vars

\* C22: the permissionMode of a registered session changes only in a step
\* that serves a setSessionMode request for that session.
C22_ModeChangedBySetSessionMode ==
    [][\A s \in DOMAIN sessions \cap DOMAIN sessions' :
          sessions'[s].permissionMode # sessions[s].permissionMode
          => (reply'.op = "setSessionMode" /\ reply'.id = s)]_vars

\* the rules of the claim, in its order: a prefix and the kind it gives
KindRules ==
    <<<<<<"r", "e", "a", "d">>, "read">>,
      <<<<"w", "r", "i", "t", "e">>, "edit">>,
      <<<<"e", "d", "i", "t">>, "edit">>,
      <<<<"a", "p", "p", "l", "y">>, "edit">>,
      <<<<"i", "n", "s", "e", "r", "t">>, "edit">>,
      <<<<"e", "x", "e", "c", "u", "t", "e">>, "execute">>,
      <<<<"s", "e", "a", "r", "c", "h">>, "search">>,
      <<<<"l", "i", "s", "t">>, "search">>,
      <<<<"b", "r", "o", "w", "s", "e", "r">>, "fetch">>,
      <<<<"u", "p", "d", "a", "t", "e">>, "think">>,
      <<<<"a", "s", "k">>, "think">>,
      <<<<"n", "e", "w", "_", "t", "a", "s", "k">>, "think">>,
      <<<<"s", "w", "i", "t", "c", "h">>, "switch_mode">>>>

\* the kind of the first rule that matches, other if none does
RuleKind(toolName) ==
    LET matching == {i \in 1..Len(KindRules) : StartsWith(toolName, KindRules[i][1])}
    IN  IF matching = {} THEN "other"
        ELSE KindRules[CHOOSE i \in matching : \A j \in matching : i <= j][2]

KindExamples ==
    {<<<<"r", "e", "a", "d", "_", "f", "i", "l", "e">>, "read">>,
     <<<<"w", "r", "i", "t", "e", "_", "f", "i", "l", "e">>, "edit">>,
     <<<<"e", "x", "e", "c", "u", "t", "e", "_", "b", "a", "s", "h">>, "execute">>,
     <<<<"s", "e", "a", "r", "c", "h", "_", "c", "o", "d", "e">>, "search">>,
     <<<<"u", "n", "k", "n", "o", "w", "n", "_", "t", "o", "o", "l">>, "other">>}

\* C23: every tool_call notification sent for a tool part carries the kind
\* of the first rule of the claim that matches the part's tool name (other
\* when none matches), in particular read_file is read, write_file edit,
\* execute_bash execute, search_code search and unknown_tool other; so all
\* tool_call notifications for one tool carry the same kind.
C23_ToolKind ==
    \A i \in OutIdx :
        (out[i].sessionUpdate = "tool_call" /\ out[i].toolCallId = cur.e.callID) =>
            /\ out[i].kind = RuleKind(cur.e.tool)
            /\ \A x \in KindExamples : cur.e.tool = x[1] => out[i].kind = x[2]

C23_Witness ==
    /\ cur.mode = "acceptEdits"
    /\ cur.e.tool = <<"l", "i", "s", "t", "_", "f", "i", "l", "e">>
    /\ Len(out) = 2
    /\ out[1].sessionUpdate = "tool_call" /\ out[1].kind = "search"
    /\ out[2].sessionUpdate = "tool_call" /\ out[2].kind = "search"

\* the prompt served last was a slash command of a registered session one
\* of whose upstream calls failed
C24_UpstreamFailed ==
    /\ reply.op = "prompt" /\ reply.known /\ reply.input.slash
    /\ reply.input.upstream \in {"error", "rejects", "lookup"}

\* C24: a prompt during which an upstream call failed either throws or has
\* sent the session a message chunk describing the failure.
C24_NoSilentFailure ==
    /\ C24_UpstreamFailed =>
          \/ reply.threw
          \/ \E i \in 1..Len(reply.sent) :
                /\ reply.sent[i].sessionUpdate = "agent_message_chunk"
                /\ reply.sent[i].sessionId = reply.id
                /\ reply.sent[i].text = CommandErrorText
    /\ (reply.op = "prompt" /\ reply.known /\ ~reply.input.slash
          /\ reply.input.upstream \in {"error", "empty"}) => reply.threw

IsPlan(c) == c.sessionUpdate = "plan"

IsReasoning(part) == part.partType = "reasoning"

\* the reasoning parts of the assistant messages of a history, in order
RECURSIVE C26_ReasoningParts(_)
C26_ReasoningParts(history) ==
    IF history = <<>> THEN <<>>
    ELSE (IF Head(history).role = "assistant"
          THEN SelectSeq(Head(history).parts, IsReasoning) ELSE <<>>)
            \o C26_ReasoningParts(Tail(history))

\* C26: a live reasoning part of a registered session yields one thought
\* chunk carrying the text beyond the stored length, or nothing when that is
\* empty; a loadSession that returns has sent, for the reasoning parts of the
\* history's assistant messages in order, one plan update each with a single
\* entry of the part's full text, priority medium and status pending, and no
\* thought chunk; and a request stores no text in deltaState, whatever it
\* replayed.
C26_ReasoningLiveAndReplayed ==
    [][/\ (nEvents' # nEvents /\ cur'.known /\ cur'.e.partType = "reasoning") =>
              LET deltaText == Substring(cur'.e.text, Len(cur'.previousText))
              IN  out' = IF deltaText = <<>> THEN <<>>
                         ELSE <<Chunk(cur'.e.sessionID, "agent_thought_chunk", deltaText)>>
       /\ (reply'.op = "loadSession" /\ ~reply'.threw) =>
              LET plans == SelectSeq(reply'.sent, IsPlan)
                  parts == C26_ReasoningParts(reply'.history)
              IN  /\ Len(plans) = Len(parts)
                  /\ \A i \in 1..Len(plans) :
                        /\ plans[i].call = "sessionUpdate"
                        /\ plans[i].sessionId = reply'.id
                        /\ plans[i].content = "entries"
                        /\ plans[i].text = parts[i].text
                        /\ plans[i].kind = "medium"
                        /\ plans[i].status = "pending"
                  /\ \A i \in 1..Len(reply'.sent) :
                        reply'.sent[i].sessionUpdate # "agent_thought_chunk"
       /\ nEvents' = nEvents =>
              \A s \in DOMAIN sessions' :
                  \A p \in DOMAIN DeltaState(sessions', s) :
                      /\ s \in DOMAIN sessions
                      /\ p \in DOMAIN DeltaState(sessions, s)
                      /\ DeltaState(sessions', s)[p] = DeltaState(sessions, s)[p]]_vars

\* a replayed reasoning part, then the same part live: the plan update
\* carried the full text, the thought chunk only the delta
C26_Witness ==
    /\ reply.op = "loadSession" /\ ~reply.threw
    /\ \E i \in 1..Len(reply.sent) :
          IsPlan(reply.sent[i]) /\ reply.sent[i].text = <<"a", "b">>
    /\ cur.known /\ cur.e.partType = "reasoning"
    /\ cur.previousText = <<"a">> /\ cur.e.text = <<"a", "b">>
    /\ out = <<Chunk("s1", "agent_thought_chunk", <<"b">>)>>

\* C27: the iteration for a message.updated event issues no downstream call
\* and changes no session (its deltaState, permissionMode and cancelled flag),
\* no record of the loop and no terminal, for the session the event names and
\* for every other; a session holds its waiter in one slot, which no request
\* of the agent fills, so the event finds none to call.
C27_MessageUpdatedOnlyToWaiter ==
    [][(nEvents' # nEvents /\ cur'.e.type = "message.updated") =>
          /\ out' = <<>>
          /\ sessions' = sessions
          /\ pc' = pc
          /\ UNCHANGED <<recv, chunks, denied, requests, aborted, reply, termVars>>
          /\ \A s \in DOMAIN sessions : sessions[s].messageUpdateResolver = FALSE]_vars

\* a message.updated event for a session in plan mode with a stored text
C27_Witness ==
    /\ cur.e.type = "message.updated" /\ cur.known /\ out = <<>>
    /\ sessions[cur.e.sessionID].permissionMode = "plan"
    /\ DeltaState(sessions, cur.e.sessionID) # EmptyMap
    /\ pc = "idle"

IsErrorChunk(c) == c.sessionUpdate = "agent_message_chunk" /\ c.text = ErrorText

\* the number of parts of the assistant messages of a history that carry an
\* error
RECURSIVE C28_ErroredParts(_)
C28_ErroredParts(history) ==
    IF history = <<>> THEN 0
    ELSE (IF Head(history).role = "assistant" /\ Head(history).hasError
          THEN Len(Head(history).parts) ELSE 0)
            + C28_ErroredParts(Tail(history))

\* C28: for every part, toAcpNotifications gives at most one notification
\* when the message info carries no error, and the same followed by exactly
\* one message chunk naming the error when it does; no call the loop issues
\* for a live part is such an error chunk; a loadSession that returns has
\* sent one error chunk for each part of each errored assistant message of
\* the history.
C28_ErrorChunk ==
    /\ \A part \in PartUpdatedEvents \cup HistoryParts :
          LET plain == toAcpNotifications(FALSE, part, "s1")
              withError == toAcpNotifications(TRUE, part, "s1")
          IN  /\ Len(plain) <= 1
              /\ \A i \in 1..Len(plain) : ~IsErrorChunk(plain[i])
              /\ Len(withError) = Len(plain) + 1
              /\ SubSeq(withError, 1, Len(plain)) = plain
              /\ IsErrorChunk(withError[Len(withError)])
              /\ withError[Len(withError)].sessionId = "s1"
    /\ \A i \in OutIdx : ~IsErrorChunk(out[i])
    /\ (reply.op = "loadSession" /\ ~reply.threw) =>
          Len(SelectSeq(reply.sent, IsErrorChunk)) = C28_ErroredParts(reply.history)

\* a replayed errored assistant message of two parts, and a live patch part
C28_Witness ==
    /\ reply.op = "loadSession" /\ ~reply.threw
    /\ Len(reply.history) = 1 /\ reply.history[1].role = "assistant"
    /\ reply.history[1].hasError /\ Len(reply.history[1].parts) = 2
    /\ Len(SelectSeq(reply.sent, IsErrorChunk)) = 2
    /\ cur.known /\ cur.e.partType = "patch" /\ Len(out) = 1

\* C29: a waitForTerminalExit call that is polling a terminal whose record
\* has been released eventually stops polling.
C29_NoOrphanedWaiter ==
    \A t \in TerminalIds :
        (waits[t].at = "polling" /\ t \notin backgroundTerminals)
            ~> (waits[t].at # "polling")

\* C30: whenever the loop takes a text part that passes the echo filter or a
\* reasoning part, of a registered session, the text stored for the part
\* afterwards is the text received, also when nothing is sent; nothing is
\* sent when the received text is not longer than the stored one, and
\* otherwise the one chunk sent carries the received text beyond the length
\* of the text stored before, which is whatever the update before left.
C30_StoredOnEveryUpdate ==
    [][(/\ nEvents' # nEvents /\ IsPartUpdate(cur'.e) /\ cur'.known
        /\ cur'.e.partType \in {"text", "reasoning"}
        /\ ~(cur'.e.partType = "text" /\ ~cur'.e.time))
       => LET s == cur'.e.sessionID
              stored == MapGet(DeltaState(sessions, s), cur'.e.id)
          IN  /\ cur'.e.id \in DOMAIN DeltaState(sessions', s)
              /\ DeltaState(sessions', s)[cur'.e.id] = cur'.e.text
              /\ IF Len(cur'.e.text) <= Len(stored)
                 THEN out' = <<>>
                 ELSE /\ Len(out') = 1
                      /\ out'[1].sessionUpdate \in
                            {"agent_message_chunk", "agent_thought_chunk"}
                      /\ out'[1].text = Substring(cur'.e.text, Len(stored))]_vars

\* a text not longer than the stored one and different from it replaced it
\* and nothing was sent
C30_Witness ==
    /\ Reached /\ cur.e.partType \in {"text", "reasoning"}
    /\ cur.previousText = <<"a">> /\ cur.e.text = <<"b">>
    /\ out = <<>>
    /\ DeltaState(sessions, cur.e.sessionID)[cur.e.id] = <<"b">>

\* a terminal that was created and whose record has been released
Released(t) == heap[t] # NoTerminal /\ t \notin backgroundTerminals

\* C31: terminal/kill of a tracked terminal returns and changes its status
\* to killed and nothing else; releaseTerminal of a tracked terminal returns
\* and removes its id from the table and nothing else; a released id is never
\* tracked again, and terminalOutput, waitForTerminalExit, terminal/kill and
\* releaseTerminal for an id that is not tracked throw Terminal not found and
\* leave every terminal, the table and every session as they were.
C31_KillReleaseNotFound ==
    [][\A t \in TerminalIds :
        /\ Released(t) => t \notin backgroundTerminals'
        /\ (reply'.op = "terminal/kill" /\ reply'.id = t
              /\ (reply' # reply \/ heap' # heap)) =>
              IF Tracked(t)
              THEN /\ reply' = Return("terminal/kill", t, "-", "ok")
                   /\ heap' = [heap EXCEPT ![t].status = "killed"]
                   /\ UNCHANGED <<sessions, loopVars, aborted, backgroundTerminals, waits>>
              ELSE /\ reply' = NotFound("terminal/kill", t)
                   /\ UNCHANGED <<sessions, loopVars, aborted, termVars>>
        /\ (reply'.op = "releaseTerminal" /\ reply'.id = t
              /\ (reply' # reply \/ backgroundTerminals' # backgroundTerminals)) =>
              IF Tracked(t)
              THEN /\ reply' = Return("releaseTerminal", t, "-", "ok")
                   /\ backgroundTerminals' = backgroundTerminals \ {t}
                   /\ UNCHANGED <<sessions, loopVars, aborted, heap, waits>>
              ELSE /\ reply' = NotFound("releaseTerminal", t)
                   /\ UNCHANGED <<sessions, loopVars, aborted, termVars>>
        /\ (reply'.op = "terminalOutput" /\ reply'.id = t /\ reply' # reply
              /\ ~Tracked(t)) =>
              /\ reply' = NotFound("terminalOutput", t)
              /\ UNCHANGED <<sessions, loopVars, aborted, termVars>>
        /\ (waits[t].at = "none" /\ waits'[t].at # "none" /\ ~Tracked(t)) =>
              /\ waits' = [waits EXCEPT ![t] = [NoWait EXCEPT !.at = "threw"]]
              /\ UNCHANGED <<sessions, loopVars, aborted, reply, heap, backgroundTerminals>>]_vars

\* terminal/kill after the release threw and the terminal is still started
C31_Witness ==
    /\ reply.op = "terminal/kill" /\ reply.threw
    /\ reply.id \in TerminalIds /\ Released(reply.id)
    /\ heap[reply.id].status = "started"

\* C32: a createTerminal that returns has added, under the id it returns,
\* which was not in use, one record with status started, empty output and
\* null exit status, and has changed no other record; a createTerminal that
\* throws has changed no record and not the set of tracked ids; and no other
\* operation adds an id to that set.
C32_CreateTerminal ==
    [][/\ (reply'.op = "createTerminal" /\ (reply' # reply \/ heap' # heap)) =>
              IF reply'.threw
              THEN UNCHANGED <<sessions, loopVars, aborted, termVars>>
              ELSE LET t == reply'.id
                   IN  /\ t \in TerminalIds \ backgroundTerminals
                       /\ heap[t] = NoTerminal
                       /\ backgroundTerminals' = backgroundTerminals \cup {t}
                       /\ heap' = [heap EXCEPT ![t] =
                                      [status |-> "started", exitStatus |-> {},
                                       output |-> <<>>]]
                       /\ UNCHANGED <<sessions, loopVars, aborted, waits>>
       /\ ~(backgroundTerminals' \subseteq backgroundTerminals) =>
              (reply'.op = "createTerminal" /\ ~reply'.threw)]_vars

\* a failed createTerminal after a successful one
C32_Witness ==
    /\ reply.op = "createTerminal" /\ reply.threw
    /\ Cardinality(backgroundTerminals) = 1
    /\ \E t \in TerminalIds : heap[t] = NoTerminal

\* C33: among the calls the loop issues for the first event it takes, before
\* which it has sent nothing, every tool_call_update is preceded by a
\* tool_call for the same session and callID.
C33_UpdateAfterToolCall ==
    nEvents = 1 =>
        \A i \in OutIdx :
            out[i].sessionUpdate = "tool_call_update" =>
                \E j \in 1..(i - 1) :
                    /\ out[j].sessionUpdate = "tool_call"
                    /\ out[j].sessionId = out[i].sessionId
                    /\ out[j].toolCallId = out[i].toolCallId

\* C34: a step of the loop for a part update (taking the event, or going on
\* after the permission response) leaves the session table's ids, every
\* session's permissionMode and cancelled flag, every terminal and every
\* stored text as they were, but the text stored for the event's part in the
\* event's session; the texts received and the chunks sent are unchanged for
\* every other session and part, and every call issued is for the event's
\* session.
C34_PartUpdateFrame ==
    [][((nEvents' # nEvents \/ cur'.response # cur.response) /\ IsPartUpdate(cur'.e)) =>
          /\ DOMAIN sessions' = DOMAIN sessions
          /\ UNCHANGED <<termVars, aborted, reply>>
          /\ \A s \in DOMAIN sessions :
                /\ sessions'[s].permissionMode = sessions[s].permissionMode
                /\ sessions'[s].cancelled = sessions[s].cancelled
                /\ \A p \in PartIds :
                      (s # cur'.e.sessionID \/ p # cur'.e.id) =>
                          /\ (p \in DOMAIN DeltaState(sessions', s))
                                = (p \in DOMAIN DeltaState(sessions, s))
                          /\ MapGet(DeltaState(sessions', s), p)
                                = MapGet(DeltaState(sessions, s), p)
          /\ \A sp \in SessionIds \X PartIds :
                sp # <<cur'.e.sessionID, cur'.e.id>> =>
                    (recv'[sp] = recv[sp] /\ chunks'[sp] = chunks[sp])
          /\ \A i \in 1..Len(out') : out'[i].sessionId = cur'.e.sessionID]_vars

\* an update of a part of one session while another session holds a text
\* under the same part id
C34_Witness ==
    /\ Reached /\ cur.e.partType = "text" /\ out # <<>>
    /\ \E s \in Registered :
          /\ s # cur.e.sessionID
          /\ cur.e.id \in DOMAIN DeltaState(sessions, s)
          /\ DeltaState(sessions, s)[cur.e.id] # cur.e.text

\* C35: while a permission request is outstanding the event was taken in
\* default mode, and once the client has answered and the iteration has run
\* to its end the calls issued for the event are the tool_call, the request
\* and what the answer alone decides (the part's notification after
\* allow_once, the failed update otherwise), and the call counts as denied
\* exactly by the answer, whatever mode the session has by then.
C35_ModeAtTakeUp ==
    /\ pc = "awaitPermission" =>
          (cur.mode = "default" /\ IsPendingTool(cur.e) /\ cur.known)
    /\ (cur.response \in {"allow_once", "reject_once", "cancelled"} /\ pc = "idle") =>
          /\ cur.mode = "default"
          /\ Len(out) = 3
          /\ IsToolCallFor(out[1], cur.e, "pending")
          /\ IsRequestFor(out[2], cur.e)
          /\ out[3] = IF cur.response = "allow_once"
                      THEN ToolCall(cur.e.sessionID, cur.e.callID, "pending",
                                    mapToolKind(cur.e.tool))
                      ELSE ToolCallUpdate(cur.e.sessionID, cur.e.callID, "failed",
                                          "content", PermissionDeniedText(cur.e.tool))
          /\ (cur.response # "allow_once") =>
                <<cur.e.sessionID, cur.e.callID>> \in denied
          /\ (cur.response = "allow_once" /\ ~cur.deniedBefore) =>
                <<cur.e.sessionID, cur.e.callID>> \notin denied

\* the session was put in plan mode while the request was outstanding and
\* the call was allowed all the same
C35_Witness ==
    /\ cur.response = "allow_once" /\ pc = "idle" /\ cur.mode = "default"
    /\ cur.e.sessionID \in Registered
    /\ sessions[cur.e.sessionID].permissionMode = "plan"
    /\ Len(out) = 3
    /\ <<cur.e.sessionID, cur.e.callID>> \notin denied

\* C36: taking a part update (one that carries a part) or a message update
\* whose session id is not in the session table issues no call and changes
\* no session, no record of the loop and no terminal, and the loop is ready
\* for the next event; and a request, such as the newSession or loadSession
\* that registers the id later, issues none of the loop's calls and sends no
\* chunk for any part, so nothing of such an event is delivered afterwards.
C36_UnknownSessionDropped ==
    [][/\ (nEvents' # nEvents /\ HasPart(cur'.e)
            /\ cur'.e.sessionID \notin DOMAIN sessions) =>
              /\ ~cur'.known
              /\ out' = <<>>
              /\ pc' = "idle"
              /\ UNCHANGED <<sessions, recv, chunks, denied, requests, aborted,
                             reply, termVars>>
       /\ (nEvents' = nEvents /\ cur'.response = cur.response) =>
              UNCHANGED <<out, recv, chunks, denied, requests>>
       /\ \A s \in DOMAIN sessions' \ DOMAIN sessions :
              sessions'[s] = NewSessionRecord]_vars

\* a tool part arrived for a session that was registered only afterwards:
\* nothing was sent for it
C36_Witness ==
    /\ IsPartUpdate(cur.e) /\ cur.e.partType = "tool" /\ ~cur.known
    /\ cur.e.sessionID \in Registered
    /\ out = <<>> /\ pc = "idle"
    /\ requests[<<cur.e.sessionID, cur.e.callID>>] = 0

\* C37: every terminal record the agent has created, tracked or released,
\* has status started or killed, empty output and null exit status; a
\* terminalOutput that returns reports empty output and null exit status, and
\* a waitForTerminalExit that returns gives exit code null and signal null.
C37_NoExitRecorded ==
    /\ \A t \in TerminalIds :
          /\ heap[t] # NoTerminal =>
                /\ heap[t].status \in {"started", "killed"}
                /\ heap[t].output = <<>>
                /\ heap[t].exitStatus = {}
          /\ t \in backgroundTerminals => heap[t] # NoTerminal
          /\ waits[t].at = "returned" =>
                (waits[t].exitCode = Null /\ waits[t].signal = Null)
    /\ (reply.op = "terminalOutput" /\ ~reply.threw) =>
          (reply.output = <<>> /\ reply.exitStatus = {})

\* a wait returned for a killed terminal and terminalOutput was served for it
C37_Witness ==
    /\ reply.op = "terminalOutput" /\ ~reply.threw /\ reply.id \in TerminalIds
    /\ heap[reply.id].status = "killed"
    /\ waits[reply.id].at = "returned" /\ waits[reply.id].exitCode = Null
    /\ reply.output = <<>>

\* terminal/kill was the request served last and it was for terminal t
KillCalled(t) == reply.op = "terminal/kill" /\ reply.id = t

\* C38: when the poll timers are scheduled fairly, a waitForTerminalExit
\* call that is polling terminal t when terminal/kill has been called for t
\* eventually stops polling, and a waitForTerminalExit call made for a
\* tracked terminal that is already killed returns at once.
C38_WaitReturnsAfterKill ==
    /\ \A t \in TerminalIds :
          (waits[t].at = "polling" /\ KillCalled(t)) ~> (waits[t].at = "returned")
    /\ [][\A t \in TerminalIds :
            (waits[t].at = "none" /\ waits'[t].at # "none"
                /\ Tracked(t) /\ heap[t].status = "killed")
            => waits'[t].at = "returned"]_vars

\* C39: a loadSession whose verification fails throws and leaves the session
\* table unchanged; one whose verification succeeds leaves under its id a
\* session in default mode, not cancelled and with empty deltaState, and
\* every other session as it was, also when it then throws because the
\* history could not be fetched.
C39_LoadSessionRegisters ==
    [][(reply'.op = "loadSession" /\ (reply' # reply \/ sessions' # sessions)) =>
          IF reply'.threw /\ reply'.arg = "verify"
          THEN sessions' = sessions
          ELSE /\ reply'.threw => reply'.arg = "history"
               /\ DOMAIN sessions' = DOMAIN sessions \cup {reply'.id}
               /\ sessions'[reply'.id].permissionMode = "default"
               /\ sessions'[reply'.id].cancelled = FALSE
               /\ DeltaState(sessions', reply'.id) = EmptyMap
               /\ \A s \in DOMAIN sessions \ {reply'.id} :
                     sessions'[s] = sessions[s]]_vars

\* a loadSession of an id not registered before threw on the history and
\* the id is registered
C39_Witness ==
    /\ reply.op = "loadSession" /\ reply.threw /\ reply.arg = "history"
    /\ ~reply.known /\ reply.id \in Registered
    /\ sessions[reply.id].permissionMode = "default"

\* C40: a prompt of a registered session whose first block is a text
\* starting with "/" has not called session.prompt upstream, whatever the
\* command, and has returned end_turn unless the command handling threw; and
\* after any prompt of a registered session, slash command or not, returned
\* or thrown, the session's cancelled flag is false.
C40_SlashCommand ==
    /\ (reply.op = "prompt" /\ reply.known /\ reply.input.slash) =>
          /\ ~reply.upstreamPrompt
          /\ ~reply.threw => reply.result = "end_turn"
          /\ reply.threw =>
                handleCommand(reply.id, reply.input.command, reply.input.upstream,
                              reply.input.downstream).threw
    /\ (reply.op = "prompt" /\ reply.known /\ ~reply.input.slash) =>
          reply.upstreamPrompt
    /\ (reply.op = "prompt" /\ reply.known) =>
          (reply.id \in Registered /\ ~sessions[reply.id].cancelled)

\* a command of an unknown name, after a cancel of the session: handled as
\* a custom command, end_turn, and the cancelled flag is down again
C40_Witness ==
    /\ reply.op = "prompt" /\ reply.known /\ reply.input.slash
    /\ reply.input.command = "custom" /\ ~reply.threw
    /\ reply.result = "end_turn" /\ ~reply.upstreamPrompt
    /\ reply.id \in aborted /\ ~sessions[reply.id].cancelled

====
